---- MODULE Spec2Model ----
(***************************************************************************)
(* A model of rmod_gen, a library that assembles Rust constructs in memory *)
(* and renders them to source text.                                        *)
(*                                                                         *)
(* Text is modelled character by character: a Rust String is a sequence of *)
(* one-character strings, so that spaces, newlines and punctuation are     *)
(* what the renderer really emits and a property about "a stray space" or  *)
(* "a blank line" is a property of the characters.                         *)
(*                                                                         *)
(* The state is one construct under construction (comp), built by the      *)
(* chained with_X / push_X / set_X calls, and the text returned by the     *)
(* last rendering call (out) together with the indent level it was asked   *)
(* for (lvl).  phase tells whether out is the rendering of comp as it is   *)
(* now ("rendered") or comp has been configured since ("build").  calls    *)
(* is the history of the builder calls made on comp where a property is    *)
(* about that history; elsewhere it stays empty.  stack holds the          *)
(* to_rust_string calls in progress, innermost last, where the rendering   *)
(* is followed call by call; elsewhere it stays empty.                     *)
(***************************************************************************)
EXTENDS Naturals, Sequences, FiniteSets

VARIABLES comp, out, lvl, phase, calls, stack

vars == <<comp, out, lvl, phase, calls, stack>>

----------------------------------------------------------------------------
(* Bounds of the model.                                                    *)

MaxLevel == 2
MaxFields == 2
MaxGenerics == 1
MaxVariants == 2
MaxArgs == 2
MaxImports == 2
MaxComponents == 2
MaxTplItems == 2

Levels == 0..MaxLevel

----------------------------------------------------------------------------
(* Strings.                                                                *)

NL == "\n"
SP == " "

RECURSIVE Repeat(_, _)
Repeat(s, n) == IF n = 0 THEN <<>> ELSE s \o Repeat(s, n - 1)

RECURSIVE Join(_, _)
Join(strs, sep) ==
  IF Len(strs) = 0 THEN <<>>
  ELSE IF Len(strs) = 1 THEN strs[1]
  ELSE strs[1] \o sep \o Join(Tail(strs), sep)

Concat(strs) == Join(strs, <<>>)

HasNL(s) == \E i \in 1..Len(s) : s[i] = NL

FirstNL(s) == CHOOSE i \in 1..Len(s) : s[i] = NL /\ \A j \in 1..(i - 1) : s[j] # NL

(* The pieces of s between newlines, the piece after the last newline      *)
(* included (it is empty when s ends with a newline).                      *)
RECURSIVE SplitNL(_)
SplitNL(s) ==
  IF ~HasNL(s) THEN <<s>>
  ELSE <<SubSeq(s, 1, FirstNL(s) - 1)>> \o SplitNL(SubSeq(s, FirstNL(s) + 1, Len(s)))

LeadingSpaces(line) ==
  CHOOSE k \in 0..Len(line) :
    /\ \A j \in 1..k : line[j] = SP
    /\ (k < Len(line) => line[k + 1] # SP)

StartsWith(s, p) == Len(p) <= Len(s) /\ SubSeq(s, 1, Len(p)) = p

EndsWith(s, p) == Len(p) <= Len(s) /\ SubSeq(s, Len(s) - Len(p) + 1, Len(s)) = p

Contains(s, p) == \E i \in 0..(Len(s) - Len(p)) : SubSeq(s, i + 1, i + Len(p)) = p

Drop(s, k) == SubSeq(s, k + 1, Len(s))

(* Keywords and punctuation of the emitted text.                           *)
K_struct == <<"s", "t", "r", "u", "c", "t">>
K_enum == <<"e", "n", "u", "m">>
K_mod == <<"m", "o", "d">>
K_fn == <<"f", "n">>
K_impl == <<"i", "m", "p", "l">>
K_pub == <<"p", "u", "b">>
K_pub_crate == <<"p", "u", "b", "(", "c", "r", "a", "t", "e", ")">>
CommaSp == <<",", " ">>
ColonSp == <<":", " ">>
Arrow == <<"-", ">", " ">>
OpenBrace == <<"{">>
CloseBrace == <<"}">>

----------------------------------------------------------------------------
(* lib.rs: indentation.                                                    *)

TAB_SIZE == 4

indent_string(indent_level) == Repeat(Repeat(<<SP>>, TAB_SIZE), indent_level)

(* A line carries exactly n indentation units: TAB_SIZE * n spaces and no  *)
(* further space after them.                                               *)
ExactUnits(line, n) == LeadingSpaces(line) = TAB_SIZE * n

----------------------------------------------------------------------------
(* rust_component.rs: Visibility, Field, the generic clause.               *)

Visibilities == {"Private", "Public", "CrateVisible"}

Visibility_fmt(v) ==
  IF v = "Private" THEN <<>>
  ELSE IF v = "Public" THEN K_pub
  ELSE K_pub_crate

Field_new(name, field_type, visibility) ==
  [name |-> name, field_type |-> field_type, visibility |-> visibility]

Field_private(name, field_type) == Field_new(name, field_type, "Private")

Field_fmt(f) ==
  IF f.visibility = "Private" THEN f.name \o ColonSp \o f.field_type
  ELSE IF f.visibility = "Public" THEN K_pub \o <<SP>> \o f.name \o ColonSp \o f.field_type
  ELSE K_pub_crate \o <<SP>> \o f.name \o ColonSp \o f.field_type

(* for i in 0..len: push '\'', push lifetimes[i], push ", " unless last.   *)
RECURSIVE lifetime_loop(_, _)
lifetime_loop(lifetimes, i) ==
  IF i > Len(lifetimes) THEN <<>>
  ELSE <<"'">> \o lifetimes[i]
       \o (IF i # Len(lifetimes) THEN CommaSp ELSE <<>>)
       \o lifetime_loop(lifetimes, i + 1)

create_lifetime_string(lifetimes) == lifetime_loop(lifetimes, 1)

(* The loop with the subtraction taken once before it, whatever the length. *)
RECURSIVE lifetime_loop_panics_Hoisted(_, _)
lifetime_loop_panics_Hoisted(lifetimes, i) ==
  \/ Len(lifetimes) < 1
  \/ /\ i <= Len(lifetimes)
     /\ \/ i \notin DOMAIN lifetimes
        \/ lifetime_loop_panics_Hoisted(lifetimes, i + 1)

(* Whether the loop aborts from iteration i on: an iteration aborts when   *)
(* the index of &lifetimes[i] is out of range or when the unsigned         *)
(* lifetimes.len() - 1 of its test would go below zero (len < 1).          *)
RECURSIVE lifetime_loop_panics(_, _)
lifetime_loop_panics(lifetimes, i) ==
  /\ i <= Len(lifetimes)
  /\ \/ i \notin DOMAIN lifetimes
     \/ Len(lifetimes) < 1
     \/ lifetime_loop_panics(lifetimes, i + 1)

create_lifetime_string_panics(lifetimes) == lifetime_loop_panics(lifetimes, 1)

(* The clause with its brackets written even when there is nothing in it.  *)
create_template_string_AlwaysBrackets(templates, lifetimes) ==
  LET t == Join(templates, CommaSp)
      l == create_lifetime_string(lifetimes)
  IN IF Len(l) = 0 THEN <<"<">> \o t \o <<">">>
     ELSE IF Len(t) = 0 THEN <<"<">> \o l \o <<">">>
     ELSE <<"<">> \o l \o CommaSp \o t \o <<">">>

create_template_string(templates, lifetimes) ==
  LET t == Join(templates, CommaSp)
      l == create_lifetime_string(lifetimes)
  IN IF Len(l) = 0 /\ Len(t) = 0 THEN <<>>
     ELSE IF Len(l) = 0 THEN <<"<">> \o t \o <<">">>
     ELSE IF Len(t) = 0 THEN <<"<">> \o l \o <<">">>
     ELSE <<"<">> \o l \o CommaSp \o t \o <<">">>

(* lines.into_iter().map(|l| indent + l + "\n").collect()                  *)
RECURSIVE IndentLines(_, _)
IndentLines(lines, indent_str) ==
  IF Len(lines) = 0 THEN <<>>
  ELSE indent_str \o lines[1] \o <<NL>> \o IndentLines(Tail(lines), indent_str)

----------------------------------------------------------------------------
(* Inputs.                                                                 *)

Names == {<<"N">>, <<"M", "y">>}
FieldNames == {<<"a">>, <<"b">>}
TypeNames == {<<"T">>}
TemplateIds == {<<"T">>}
LifetimeIds == {<<"a">>}
Extras == {<<>>, <<"w", " ", "T">>}
Cfgs == {<<>>, <<"#", "c">>}

FieldInputs ==
  {Field_private(<<"a">>, <<"T">>), Field_new(<<"b">>, <<"u">>, "Public"),
   Field_new(<<"c">>, <<"T">>, "CrateVisible")}

----------------------------------------------------------------------------
(* rust_struct.rs                                                          *)

RustStruct_new(name) ==
  [kind |-> "Struct", name |-> name, fields |-> <<>>, visibility |-> "Private",
   templates |-> <<>>, lifetimes |-> <<>>, extra |-> <<>>, cfg |-> <<>>]

RustStruct_push_field(s, field) == [s EXCEPT !.fields = Append(@, field)]
RustStruct_set_visibility(s, v) == [s EXCEPT !.visibility = v]
RustStruct_push_template(s, t) == [s EXCEPT !.templates = Append(@, t)]
RustStruct_push_lifetime(s, l) == [s EXCEPT !.lifetimes = Append(@, l)]
RustStruct_set_extra(s, e) == [s EXCEPT !.extra = e]
RustStruct_set_cfg(s, c) == [s EXCEPT !.cfg = c]

RECURSIVE StructFieldLines(_)
StructFieldLines(fields) ==
  IF Len(fields) = 0 THEN <<>>
  ELSE <<indent_string(1) \o Field_fmt(fields[1]) \o <<",">> >>
       \o StructFieldLines(Tail(fields))

(* A plausible slip: the fields indented with the construct's own level    *)
(* instead of one unit, before the common prefix is added.                 *)
RECURSIVE StructFieldLines_OwnLevel(_, _)
StructFieldLines_OwnLevel(fields, indent_level) ==
  IF Len(fields) = 0 THEN <<>>
  ELSE <<indent_string(indent_level) \o Field_fmt(fields[1]) \o <<",">> >>
       \o StructFieldLines_OwnLevel(Tail(fields), indent_level)

(* The declaration line with extra always written, even when empty.        *)
DeclLine_AlwaysExtra(keyword, c) ==
  LET crate_line ==
        IF c.visibility = "Private"
        THEN keyword \o <<SP>> \o c.name
             \o create_template_string(c.templates, c.lifetimes)
        ELSE Visibility_fmt(c.visibility) \o <<SP>> \o keyword \o <<SP>> \o c.name
             \o create_template_string(c.templates, c.lifetimes)
  IN crate_line \o <<SP>> \o c.extra \o <<SP>> \o OpenBrace

DeclLine(keyword, c) ==
  LET crate_line ==
        IF c.visibility = "Private"
        THEN keyword \o <<SP>> \o c.name
             \o create_template_string(c.templates, c.lifetimes)
        ELSE Visibility_fmt(c.visibility) \o <<SP>> \o keyword \o <<SP>> \o c.name
             \o create_template_string(c.templates, c.lifetimes)
  IN IF Len(c.extra) = 0 THEN crate_line \o <<SP>> \o OpenBrace
     ELSE crate_line \o <<SP>> \o c.extra \o <<SP>> \o OpenBrace

RustStruct_to_rust_string_OwnLevel(s, indent_level) ==
  LET lines == (IF Len(s.cfg) = 0 THEN <<>> ELSE <<s.cfg>>)
               \o <<DeclLine(K_struct, s)>>
               \o StructFieldLines_OwnLevel(s.fields, indent_level)
               \o <<CloseBrace>>
  IN IndentLines(lines, indent_string(indent_level))

RustStruct_to_rust_string(s, indent_level) ==
  LET lines == (IF Len(s.cfg) = 0 THEN <<>> ELSE <<s.cfg>>)
               \o <<DeclLine(K_struct, s)>>
               \o StructFieldLines(s.fields)
               \o <<CloseBrace>>
  IN IndentLines(lines, indent_string(indent_level))

----------------------------------------------------------------------------
(* rust_enum.rs: EnumVariant and its builder.                              *)

Digits == <<"0", "1", "2", "3", "4", "5", "6", "7", "8", "9">>

(* usize::to_string                                                        *)
RECURSIVE usize_to_string(_)
usize_to_string(n) ==
  IF n < 10 THEN <<Digits[n + 1]>>
  ELSE usize_to_string(n \div 10) \o <<Digits[(n % 10) + 1]>>

EnumVariant_new_struct(name, fields) ==
  [kind |-> "EnumVariant", tag |-> "StructVariant", name |-> name, fields |-> fields]

EnumVariant_new_value(name, types) ==
  [kind |-> "EnumVariant", tag |-> "ValueVariant", name |-> name, types |-> types]

EnumVariant_new_empty(name) ==
  [kind |-> "EnumVariant", tag |-> "EmptyVariant", name |-> name]

EnumVariantBuilder_new(name) ==
  [kind |-> "EnumVariantBuilder", name |-> name, struct_variant |-> FALSE,
   fields |-> <<>>]

(* push_field turning the builder into a struct builder only when it is    *)
(* the first item added.                                                   *)
EnumVariantBuilder_push_field_FirstDecides(b, name, tp) ==
  [b EXCEPT !.struct_variant = (Len(b.fields) = 0), !.fields = Append(@, <<name, tp>>)]

EnumVariantBuilder_push_field(b, name, tp) ==
  [b EXCEPT !.struct_variant = TRUE, !.fields = Append(@, <<name, tp>>)]

EnumVariantBuilder_push_value_LastDecides(b, tp) ==
  [b EXCEPT !.struct_variant = FALSE,
            !.fields = Append(@, <<usize_to_string(Len(b.fields)), tp>>)]

EnumVariantBuilder_push_value(b, tp) ==
  [b EXCEPT !.fields = Append(@, <<usize_to_string(Len(b.fields)), tp>>)]

(* fields(): every (name, type) pair becomes a private Field.              *)
EnumVariantBuilder_fields(b) ==
  [i \in 1..Len(b.fields) |-> Field_private(b.fields[i][1], b.fields[i][2])]

(* types(): the names are dropped.                                         *)
EnumVariantBuilder_types(b) == [i \in 1..Len(b.fields) |-> b.fields[i][2]]

EnumVariantBuilder_build(b) ==
  IF b.struct_variant THEN EnumVariant_new_struct(b.name, EnumVariantBuilder_fields(b))
  ELSE IF Len(b.fields) = 0 THEN EnumVariant_new_empty(b.name)
  ELSE EnumVariant_new_value(b.name, EnumVariantBuilder_types(b))

(* fields.iter().map(|f| format!("{}{},\n", nested_indent, f)).collect()   *)
RECURSIVE VariantFieldStr(_, _)
VariantFieldStr(fields, nested_indent_string) ==
  IF Len(fields) = 0 THEN <<>>
  ELSE nested_indent_string \o Field_fmt(fields[1]) \o <<",", NL>>
       \o VariantFieldStr(Tail(fields), nested_indent_string)

(* The same text with a newline after the closing "," of the variant.      *)
EnumVariant_to_rust_string_Newline(v, indent_level) ==
  (IF v.tag = "StructVariant"
   THEN indent_string(indent_level) \o v.name \o <<SP>> \o OpenBrace \o <<NL>>
        \o VariantFieldStr(v.fields, indent_string(indent_level + 1))
        \o indent_string(indent_level) \o CloseBrace \o <<",">>
   ELSE IF v.tag = "ValueVariant"
   THEN indent_string(indent_level) \o v.name \o <<"(">> \o Join(v.types, CommaSp)
        \o <<")", ",">>
   ELSE indent_string(indent_level) \o v.name \o <<",">>)
  \o <<NL>>

EnumVariant_to_rust_string(v, indent_level) ==
  IF v.tag = "StructVariant"
  THEN indent_string(indent_level) \o v.name \o <<SP>> \o OpenBrace \o <<NL>>
       \o VariantFieldStr(v.fields, indent_string(indent_level + 1))
       \o indent_string(indent_level) \o CloseBrace \o <<",">>
  ELSE IF v.tag = "ValueVariant"
  THEN indent_string(indent_level) \o v.name \o <<"(">> \o Join(v.types, CommaSp)
       \o <<")", ",">>
  ELSE indent_string(indent_level) \o v.name \o <<",">>

----------------------------------------------------------------------------
(* rust_enum.rs: RustEnum.                                                 *)

RustEnum_new(name) ==
  [kind |-> "Enum", name |-> name, visibility |-> "Private", variants |-> <<>>,
   templates |-> <<>>, lifetimes |-> <<>>, extra |-> <<>>, cfg |-> <<>>]

RustEnum_push_variant(e, variant) == [e EXCEPT !.variants = Append(@, variant)]
RustEnum_set_visibility(e, v) == [e EXCEPT !.visibility = v]
RustEnum_push_template(e, t) == [e EXCEPT !.templates = Append(@, t)]
RustEnum_push_lifetime(e, l) == [e EXCEPT !.lifetimes = Append(@, l)]
RustEnum_set_extra(e, x) == [e EXCEPT !.extra = x]
RustEnum_set_cfg(e, c) == [e EXCEPT !.cfg = c]

RustEnum_to_rust_string(e, indent_level) ==
  LET lines == (IF Len(e.cfg) = 0 THEN <<>> ELSE <<e.cfg>>)
               \o <<DeclLine(K_enum, e)>>
               \o [i \in 1..Len(e.variants) |->
                     EnumVariant_to_rust_string(e.variants[i], indent_level + 1)]
               \o <<CloseBrace>>
  IN IndentLines(lines, indent_string(indent_level))

VariantInputs ==
  {EnumVariant_new_empty(<<"C">>),
   EnumVariant_new_value(<<"D">>, <<<<"u">>, <<"T">>>>),
   EnumVariant_new_struct(<<"E">>,
     <<Field_private(<<"a">>, <<"T">>), Field_new(<<"b">>, <<"u">>, "Public")>>),
   EnumVariantBuilder_build(
     EnumVariantBuilder_push_field(EnumVariantBuilder_new(<<"F">>), <<"a">>, <<"u">>))}

----------------------------------------------------------------------------
(* rust_method.rs                                                          *)

(* str::lines: the pieces ended by a newline, then the rest when it is not *)
(* empty; a carriage return before the newline is dropped with it.         *)
StripCR(line) ==
  IF Len(line) > 0 /\ line[Len(line)] = "\r" THEN SubSeq(line, 1, Len(line) - 1)
  ELSE line

(* The pieces around every newline, the empty piece after a closing        *)
(* newline (and the empty piece of the empty string) included.             *)
str_lines_KeepRest(s) == SplitNL(s)

RECURSIVE str_lines(_)
str_lines(s) ==
  IF Len(s) = 0 THEN <<>>
  ELSE IF ~HasNL(s) THEN <<s>>
  ELSE <<StripCR(SubSeq(s, 1, FirstNL(s) - 1))>>
       \o str_lines(SubSeq(s, FirstNL(s) + 1, Len(s)))

RustMethod_new(name) ==
  [kind |-> "Method", name |-> name, fn_type |-> <<>>, visibility |-> "Private",
   arguments |-> <<>>, return_type |-> <<>>, body |-> <<>>, templates |-> <<>>,
   lifetimes |-> <<>>]

RustMethod_set_fn_type(m, tp) == [m EXCEPT !.fn_type = tp]
RustMethod_set_visibility(m, v) == [m EXCEPT !.visibility = v]
RustMethod_push_argument(m, a) == [m EXCEPT !.arguments = Append(@, a)]
RustMethod_set_return_type(m, r) == [m EXCEPT !.return_type = r]
RustMethod_set_body(m, b) == [m EXCEPT !.body = b]
RustMethod_push_template(m, t) == [m EXCEPT !.templates = Append(@, t)]
RustMethod_push_lifetime(m, l) == [m EXCEPT !.lifetimes = Append(@, l)]

RECURSIVE MethodBodyLines(_, _)
MethodBodyLines(lines, next_level_indent_string) ==
  IF Len(lines) = 0 THEN <<>>
  ELSE next_level_indent_string \o lines[1] \o <<NL>>
       \o MethodBodyLines(Tail(lines), next_level_indent_string)

(* A plausible slip: the separating spaces pushed whether or not the       *)
(* optional piece before them is present.                                  *)
RustMethod_to_rust_string_StraySpace(m, indent_level) ==
  indent_string(indent_level)
  \o Visibility_fmt(m.visibility) \o <<SP>>
  \o m.fn_type \o <<SP>>
  \o K_fn \o <<SP>>
  \o m.name
  \o create_template_string(m.templates, m.lifetimes)
  \o <<"(">> \o Join(m.arguments, CommaSp) \o <<")", SP>>
  \o (IF Len(m.return_type) # 0 THEN Arrow \o m.return_type \o <<SP>> ELSE <<>>)
  \o OpenBrace \o <<NL>>
  \o MethodBodyLines(str_lines(m.body), indent_string(indent_level + 1))
  \o indent_string(indent_level) \o CloseBrace \o <<NL>>

RustMethod_to_rust_string(m, indent_level) ==
  indent_string(indent_level)
  \o (IF m.visibility # "Private" THEN Visibility_fmt(m.visibility) \o <<SP>> ELSE <<>>)
  \o (IF Len(m.fn_type) # 0 THEN m.fn_type \o <<SP>> ELSE <<>>)
  \o K_fn \o <<SP>>
  \o m.name
  \o create_template_string(m.templates, m.lifetimes)
  \o <<"(">> \o Join(m.arguments, CommaSp) \o <<")", SP>>
  \o (IF Len(m.return_type) # 0 THEN Arrow \o m.return_type \o <<SP>> ELSE <<>>)
  \o OpenBrace \o <<NL>>
  \o MethodBodyLines(str_lines(m.body), indent_string(indent_level + 1))
  \o indent_string(indent_level) \o CloseBrace \o <<NL>>

FnTypes == {<<>>, <<"u", "n", "s", "a", "f", "e">>}
ReturnTypes == {<<>>, <<"R">>}
Arguments == {<<"x", ":", " ", "T">>, <<"y", ":", " ", "u">>}
Bodies ==
  {<<>>, <<"a", ";">>, <<"a", ";", NL>>, <<"a", ";", NL, "b", ";", NL>>,
   <<"a", ";", NL, NL, SP, "b", ";">>}

----------------------------------------------------------------------------
(* rust_text.rs and rust_variable.rs: the leaf constructs.                 *)

K_let == <<"l", "e", "t", " ">>
K_const == <<"c", "o", "n", "s", "t", " ">>
K_static == <<"s", "t", "a", "t", "i", "c", " ">>
K_mut == <<"m", "u", "t", " ">>

RustText_new(text) == [kind |-> "Text", text |-> text]

RustText_to_rust_string(t, indent_level) == indent_string(indent_level) \o t.text

RustVariable_new(variable_type, name) ==
  [kind |-> "Variable", visibility |-> "Private", name |-> name, value |-> <<>>,
   tp |-> <<>>, variable_type |-> variable_type, is_mut |-> FALSE]

RustVariable_new_let(name) == RustVariable_new("Regular", name)
RustVariable_new_const(name) == RustVariable_new("Const", name)
RustVariable_new_static(name) == RustVariable_new("Static", name)

RustVariable_set_value(v, value) == [v EXCEPT !.value = value]
RustVariable_set_type(v, tp) == [v EXCEPT !.tp = tp]
RustVariable_set_mut(v, mutable) == [v EXCEPT !.is_mut = mutable]
RustVariable_set_visibility(v, visibility) == [v EXCEPT !.visibility = visibility]

(* The same text with the value written before the type.                  *)
RustVariable_to_rust_string_ValueFirst(v, indent_level) ==
  indent_string(indent_level)
  \o (IF v.visibility # "Private" THEN Visibility_fmt(v.visibility) \o <<SP>> ELSE <<>>)
  \o (IF v.variable_type = "Static" THEN K_static
      ELSE IF v.variable_type = "Const" THEN K_const
      ELSE K_let)
  \o (IF v.is_mut THEN K_mut ELSE <<>>)
  \o v.name
  \o (IF Len(v.value) # 0 THEN <<SP, "=", SP>> \o v.value ELSE <<>>)
  \o (IF Len(v.tp) # 0 THEN ColonSp \o v.tp ELSE <<>>)
  \o <<";">>

RustVariable_to_rust_string(v, indent_level) ==
  indent_string(indent_level)
  \o (IF v.visibility # "Private" THEN Visibility_fmt(v.visibility) \o <<SP>> ELSE <<>>)
  \o (IF v.variable_type = "Static" THEN K_static
      ELSE IF v.variable_type = "Const" THEN K_const
      ELSE K_let)
  \o (IF v.is_mut THEN K_mut ELSE <<>>)
  \o v.name
  \o (IF Len(v.tp) # 0 THEN ColonSp \o v.tp ELSE <<>>)
  \o (IF Len(v.value) # 0 THEN <<SP, "=", SP>> \o v.value ELSE <<>>)
  \o <<";">>

----------------------------------------------------------------------------
(* rust_component.rs: the RustComponent union, and the two constructs that *)
(* own components, rust_module.rs and rust_impl.rs.                        *)

(* A value of the union is the record of the construct it wraps: the       *)
(* record's kind is the variant tag, so into() adds nothing to it.  These  *)
(* are the variants the enum declares.                                     *)
RustComponentVariants ==
  {"Module", "Struct", "Enum", "EnumVariant", "Method", "Implementation",
   "Variable", "Text"}

RECURSIVE RustComponent_to_rust_string(_, _)

(* self.components.iter().map(|s| s.to_rust_string(level)), concatenated.  *)
RECURSIVE ComponentTexts(_, _)
ComponentTexts(components, indent_level) ==
  IF Len(components) = 0 THEN <<>>
  ELSE <<RustComponent_to_rust_string(components[1], indent_level)>>
       \o ComponentTexts(Tail(components), indent_level)

RustModule_new(name) ==
  [kind |-> "Module", name |-> name, visibility |-> "Private", cfg_options |-> <<>>,
   imports |-> <<>>, components |-> <<>>]

RustModule_set_cfg(m, option) == [m EXCEPT !.cfg_options = option]
RustModule_set_visibility(m, v) == [m EXCEPT !.visibility = v]

(* set_components adding to the list instead of replacing it.              *)
RustModule_set_components_Extend(m, components) ==
  [m EXCEPT !.components = @ \o components]

RustModule_set_components(m, components) == [m EXCEPT !.components = components]
RustModule_push_component(m, component) == [m EXCEPT !.components = Append(@, component)]
RustModule_push_import(m, import) == [m EXCEPT !.imports = Append(@, import)]

RECURSIVE ModuleImports(_, _)
ModuleImports(imports, import_indent_string) ==
  IF Len(imports) = 0 THEN <<>>
  ELSE import_indent_string \o imports[1] \o <<";", NL>>
       \o ModuleImports(Tail(imports), import_indent_string)

ModuleDecl(m, indent_level) ==
  IF m.visibility = "Private"
  THEN indent_string(indent_level) \o K_mod \o <<SP>> \o m.name \o <<SP>> \o OpenBrace
       \o <<NL>>
  ELSE IF m.visibility = "Public"
  THEN indent_string(indent_level) \o K_pub \o <<SP>> \o K_mod \o <<SP>> \o m.name
       \o <<SP>> \o OpenBrace \o <<NL>>
  ELSE indent_string(indent_level) \o K_pub_crate \o <<SP>> \o K_mod \o <<SP>> \o m.name
       \o <<SP>> \o OpenBrace \o <<NL>>

(* A plausible slip: the blank line after the imports pushed whether or    *)
(* not there are imports.                                                  *)
RustModule_to_rust_string_AlwaysBlank(m, indent_level) ==
  (IF Len(m.cfg_options) # 0 THEN m.cfg_options \o <<NL>> ELSE <<>>)
  \o ModuleDecl(m, indent_level)
  \o ModuleImports(m.imports, indent_string(indent_level + 1)) \o <<NL>>
  \o Concat(ComponentTexts(m.components, indent_level + 1))
  \o indent_string(indent_level) \o CloseBrace \o <<NL>>

RustModule_to_rust_string(m, indent_level) ==
  LET imports == ModuleImports(m.imports, indent_string(indent_level + 1))
  IN (IF Len(m.cfg_options) # 0 THEN m.cfg_options \o <<NL>> ELSE <<>>)
     \o ModuleDecl(m, indent_level)
     \o (IF Len(imports) # 0 THEN imports \o <<NL>> ELSE <<>>)
     \o Concat(ComponentTexts(m.components, indent_level + 1))
     \o indent_string(indent_level) \o CloseBrace \o <<NL>>

RustImplementation_new(name) ==
  [kind |-> "Implementation", name |-> name, components |-> <<>>,
   impl_lifetimes |-> <<>>, target_lifetimes |-> <<>>, impl_templates |-> <<>>,
   target_templates |-> <<>>, extra |-> <<>>]

RustImplementation_new_for(lhs, rhs) ==
  RustImplementation_new(lhs \o <<" ", "f", "o", "r", " ">> \o rhs)

RustImplementation_push_component(r, c) == [r EXCEPT !.components = Append(@, c)]
RustImplementation_push_impl_lifetime(r, l) == [r EXCEPT !.impl_lifetimes = Append(@, l)]
RustImplementation_push_target_lifetime(r, l) ==
  [r EXCEPT !.target_lifetimes = Append(@, l)]
RustImplementation_push_lifetime(r, l) ==
  RustImplementation_push_target_lifetime(RustImplementation_push_impl_lifetime(r, l), l)
RustImplementation_push_impl_template(r, t) == [r EXCEPT !.impl_templates = Append(@, t)]
RustImplementation_push_target_template(r, t) ==
  [r EXCEPT !.target_templates = Append(@, t)]
(* push_template reaching the impl side only.                              *)
RustImplementation_push_template_ImplOnly(r, t) == [r EXCEPT !.impl_templates = Append(@, t)]

RustImplementation_push_template(r, t) ==
  RustImplementation_push_target_template(RustImplementation_push_impl_template(r, t), t)
RustImplementation_set_extra(r, e) == [r EXCEPT !.extra = e]

(* for component in components: push its text, then push an empty string.  *)
RECURSIVE ImplComponentLines(_, _)
ImplComponentLines(components, indent_level) ==
  IF Len(components) = 0 THEN <<>>
  ELSE <<RustComponent_to_rust_string(components[1], indent_level), <<>> >>
       \o ImplComponentLines(Tail(components), indent_level)

RustImplementation_to_rust_string(r, indent_level) ==
  LET base_indent_level == indent_string(indent_level)
      definition_line ==
        K_impl \o create_template_string(r.impl_templates, r.impl_lifetimes)
        \o <<SP>> \o r.name
        \o create_template_string(r.target_templates, r.target_lifetimes)
      first == IF Len(r.extra) = 0
               THEN base_indent_level \o definition_line \o <<SP>> \o OpenBrace
               ELSE base_indent_level \o r.extra \o <<SP>> \o definition_line \o <<SP>>
                    \o OpenBrace
  IN Join(<<first>>
          \o ImplComponentLines(r.components, indent_level + 1)
          \o <<base_indent_level \o CloseBrace \o <<NL>> >>,
          <<NL>>)

RustComponent_to_rust_string(c, indent_level) ==
  IF c.kind = "Module" THEN RustModule_to_rust_string(c, indent_level)
  ELSE IF c.kind = "Struct" THEN RustStruct_to_rust_string(c, indent_level)
  ELSE IF c.kind = "Enum" THEN RustEnum_to_rust_string(c, indent_level)
  ELSE IF c.kind = "EnumVariant" THEN EnumVariant_to_rust_string(c, indent_level)
  ELSE IF c.kind = "Method" THEN RustMethod_to_rust_string(c, indent_level)
  ELSE IF c.kind = "Implementation" THEN RustImplementation_to_rust_string(c, indent_level)
  ELSE IF c.kind = "Variable" THEN RustVariable_to_rust_string(c, indent_level)
  ELSE RustText_to_rust_string(c, indent_level)

----------------------------------------------------------------------------
(* rust_trait.rs                                                           *)

K_trait == <<"t", "r", "a", "i", "t">>
PlusSep == <<" ", "+", " ">>

RustTrait_new(name) ==
  [kind |-> "Trait", name |-> name, visibility |-> "Private", bounds |-> <<>>,
   components |-> <<>>, lifetimes |-> <<>>, templates |-> <<>>, cfg |-> <<>>,
   extra |-> <<>>]

RustTrait_set_visibility(t, visibility) == [t EXCEPT !.visibility = visibility]
RustTrait_push_bound(t, bound) == [t EXCEPT !.bounds = Append(@, bound)]
RustTrait_push_component(t, component) == [t EXCEPT !.components = Append(@, component)]
RustTrait_push_lifetime(t, lifetime) == [t EXCEPT !.lifetimes = Append(@, lifetime)]
RustTrait_push_template(t, template) == [t EXCEPT !.templates = Append(@, template)]
RustTrait_set_cfg(t, cfg) == [t EXCEPT !.cfg = cfg]
RustTrait_set_extra(t, extra) == [t EXCEPT !.extra = extra]

(* for comp in components: push comp.to_rust_string(level + 1), push "\n"  *)
RECURSIVE TraitComponentTexts(_, _)
TraitComponentTexts(components, indent_level) ==
  IF Len(components) = 0 THEN <<>>
  ELSE RustComponent_to_rust_string(components[1], indent_level + 1) \o <<NL>>
       \o TraitComponentTexts(Tail(components), indent_level)

TraitHead(t, indent_level) ==
  LET base_indent_string == indent_string(indent_level)
  IN base_indent_string
     \o (IF Len(t.cfg) # 0 THEN t.cfg \o <<NL>> \o base_indent_string ELSE <<>>)
     \o (IF t.visibility # "Private" THEN Visibility_fmt(t.visibility) \o <<SP>> ELSE <<>>)
     \o K_trait \o <<SP>> \o t.name
     \o create_template_string(t.templates, t.lifetimes)
     \o (IF Len(t.bounds) # 0 THEN ColonSp \o Join(t.bounds, PlusSep) ELSE <<>>)
     \o (IF Len(t.extra) # 0 THEN <<SP>> \o t.extra ELSE <<>>)
     \o <<SP>> \o OpenBrace \o <<NL>>

RustTrait_to_rust_string(t, indent_level) ==
  TraitHead(t, indent_level)
  \o TraitComponentTexts(t.components, indent_level)
  \o indent_string(indent_level) \o CloseBrace \o <<NL>>

----------------------------------------------------------------------------
(* file.rs                                                                 *)

K_doc == <<"/", "/", "!">>

(* str::split_inclusive("\n"): the pieces, each keeping its newline.       *)
RECURSIVE split_inclusive(_)
split_inclusive(s) ==
  IF Len(s) = 0 THEN <<>>
  ELSE IF ~HasNL(s) THEN <<s>>
  ELSE <<SubSeq(s, 1, FirstNL(s))>> \o split_inclusive(SubSeq(s, FirstNL(s) + 1, Len(s)))

RustFile_new ==
  [kind |-> "File", root_components |-> <<>>, imports |-> <<>>, file_docstring |-> <<>>,
   top_misc |-> <<>>, bottom_misc |-> <<>>]

RustFile_with_components(f, root_components) ==
  [f EXCEPT !.root_components = root_components]
RustFile_push_component(f, component) ==
  [f EXCEPT !.root_components = Append(@, component)]
RustFile_with_imports(f, imports) == [f EXCEPT !.imports = imports]
RustFile_push_import(f, import) == [f EXCEPT !.imports = Append(@, import)]
RustFile_with_file_docstring(f, s) ==
  LET pieces == split_inclusive(s)
  IN [f EXCEPT !.file_docstring = Concat([i \in 1..Len(pieces) |-> K_doc \o pieces[i]])]
RustFile_with_top_string(f, s) == [f EXCEPT !.top_misc = s]
RustFile_with_bottom_string(f, s) == [f EXCEPT !.bottom_misc = s]

RustFile_into_rust_code(f) ==
  LET lines ==
        (IF Len(f.file_docstring) # 0 THEN <<f.file_docstring, <<>> >> ELSE <<>>)
        \o (IF Len(f.imports) # 0
            THEN [i \in 1..Len(f.imports) |-> f.imports[i] \o <<";">>] \o << <<>> >>
            ELSE <<>>)
        \o (IF Len(f.top_misc) # 0 THEN <<f.top_misc, <<>> >> ELSE <<>>)
        \o ComponentTexts(f.root_components, 0)
        \o (IF Len(f.root_components) # 0 THEN << <<>> >> ELSE <<>>)
        \o (IF Len(f.bottom_misc) # 0 THEN <<f.bottom_misc, <<>> >> ELSE <<>>)
  IN Join(lines, <<NL>>)

(* The lines pushed without the tests of into_rust_code: the docstring and *)
(* the empty line after the imports always, an empty line after every      *)
(* component.                                                              *)
RustFile_to_rust_code(f) ==
  LET lines ==
        <<f.file_docstring, <<>> >>
        \o [i \in 1..Len(f.imports) |-> f.imports[i] \o <<";">>] \o << <<>> >>
        \o (IF Len(f.top_misc) # 0 THEN <<f.top_misc, <<>> >> ELSE <<>>)
        \o Concat([i \in 1..Len(f.root_components) |->
                      <<RustComponent_to_rust_string(f.root_components[i], 0), <<>> >>])
        \o (IF Len(f.bottom_misc) # 0 THEN <<f.bottom_misc, <<>> >> ELSE <<>>)
  IN Join(lines, <<NL>>)

----------------------------------------------------------------------------
(* Components given to a module, an impl block or a file as children.      *)

Imports == {<<"u", "s", "e", " ", "a">>, <<"u", "s", "e", " ", "b">>}

MethodChild == RustMethod_set_body(RustMethod_new(<<"f">>), <<"a", ";">>)
StructChild == RustStruct_push_field(RustStruct_new(<<"S">>), Field_private(<<"a">>, <<"T">>))
TextChild == RustText_new(<<"/", "/", " ", "t">>)
VariableChild == RustVariable_set_value(RustVariable_new_const(<<"X">>), <<"1">>)
ModuleChild ==
  RustModule_push_component(
    RustModule_set_cfg(RustModule_new(<<"m">>), <<"#", "c">>), StructChild)

----------------------------------------------------------------------------
(* The struct under construction.                                          *)

InitStruct ==
  /\ comp \in {RustStruct_new(n) : n \in Names}
  /\ out = <<>>
  /\ lvl = 0
  /\ phase = "build"
  /\ calls = <<>>
  /\ stack = <<>>

Configured(c) ==
  /\ comp' = c
  /\ out' = <<>>
  /\ lvl' = 0
  /\ phase' = "build"
  /\ UNCHANGED <<calls, stack>>

(* A configuring call that is also recorded in the history.                *)
Called(c, call) ==
  /\ comp' = c
  /\ out' = <<>>
  /\ lvl' = 0
  /\ phase' = "build"
  /\ calls' = Append(calls, call)
  /\ UNCHANGED stack

Rendered(text, n) ==
  /\ out' = text
  /\ lvl' = n
  /\ phase' = "rendered"
  /\ UNCHANGED <<comp, calls, stack>>

StructWithField ==
  \E f \in FieldInputs :
    /\ Len(comp.fields) < MaxFields
    /\ Configured(RustStruct_push_field(comp, f))

StructWithVisibility ==
  \E v \in Visibilities : Configured(RustStruct_set_visibility(comp, v))

StructWithTemplate ==
  \E t \in TemplateIds :
    /\ Len(comp.templates) < MaxGenerics
    /\ Configured(RustStruct_push_template(comp, t))

StructWithLifetime ==
  \E l \in LifetimeIds :
    /\ Len(comp.lifetimes) < MaxGenerics
    /\ Configured(RustStruct_push_lifetime(comp, l))

StructWithExtra == \E e \in Extras : Configured(RustStruct_set_extra(comp, e))

StructWithCfg == \E c \in Cfgs : Configured(RustStruct_set_cfg(comp, c))

StructRender == \E n \in Levels : Rendered(RustStruct_to_rust_string(comp, n), n)

NextStruct ==
  \/ StructWithField
  \/ StructWithVisibility
  \/ StructWithTemplate
  \/ StructWithLifetime
  \/ StructWithExtra
  \/ StructWithCfg
  \/ StructRender

SpecStruct == InitStruct /\ [][NextStruct]_vars

----------------------------------------------------------------------------
(* C2: a rendered struct has its cfg line (when cfg is non-empty), its     *)
(* declaration line and its closing brace at exactly lvl indentation       *)
(* units, and one line per field, in insertion order, at exactly lvl + 1   *)
(* units, each ending with a comma; the text ends with a newline.          *)
StructLinesIndented ==
  (phase = "rendered" /\ comp.kind = "Struct") =>
    LET L == SplitNL(out)
        c == IF Len(comp.cfg) = 0 THEN 0 ELSE 1
        nf == Len(comp.fields)
    IN /\ Len(L) = c + nf + 3
       /\ L[Len(L)] = <<>>
       /\ (c = 1 => L[1] = indent_string(lvl) \o comp.cfg)
       /\ ExactUnits(L[c + 1], lvl)
       /\ Contains(L[c + 1], K_struct \o <<SP>> \o comp.name)
       /\ EndsWith(L[c + 1], <<SP>> \o OpenBrace)
       /\ \A i \in 1..nf :
            /\ ExactUnits(L[c + 1 + i], lvl + 1)
            /\ EndsWith(L[c + 1 + i],
                        comp.fields[i].name \o ColonSp \o comp.fields[i].field_type
                          \o <<",">>)
       /\ L[c + nf + 2] = indent_string(lvl) \o CloseBrace

(* A struct with a cfg line and two fields, rendered below the top level.  *)
StructLinesIndentedWitness ==
  /\ phase = "rendered"
  /\ comp.kind = "Struct"
  /\ lvl = MaxLevel
  /\ Len(comp.cfg) > 0
  /\ Len(comp.fields) = 2
  /\ comp.fields[1] # comp.fields[2]

----------------------------------------------------------------------------
(* The enum under construction.                                            *)

InitEnum ==
  /\ comp \in {RustEnum_new(n) : n \in Names}
  /\ out = <<>>
  /\ lvl = 0
  /\ phase = "build"
  /\ calls = <<>>
  /\ stack = <<>>

EnumWithVariant ==
  \E v \in VariantInputs :
    /\ Len(comp.variants) < MaxVariants
    /\ Configured(RustEnum_push_variant(comp, v))

EnumWithVisibility ==
  \E v \in Visibilities : Configured(RustEnum_set_visibility(comp, v))

EnumWithTemplate ==
  \E t \in TemplateIds :
    /\ Len(comp.templates) < MaxGenerics
    /\ Configured(RustEnum_push_template(comp, t))

EnumWithLifetime ==
  \E l \in LifetimeIds :
    /\ Len(comp.lifetimes) < MaxGenerics
    /\ Configured(RustEnum_push_lifetime(comp, l))

EnumWithExtra == \E e \in Extras : Configured(RustEnum_set_extra(comp, e))

EnumWithCfg == \E c \in Cfgs : Configured(RustEnum_set_cfg(comp, c))

EnumRender == \E n \in Levels : Rendered(RustEnum_to_rust_string(comp, n), n)

NextEnum ==
  \/ EnumWithVariant
  \/ EnumWithVisibility
  \/ EnumWithTemplate
  \/ EnumWithLifetime
  \/ EnumWithExtra
  \/ EnumWithCfg
  \/ EnumRender

SpecEnum == InitEnum /\ [][NextEnum]_vars

(* The number of text lines a variant renders to.                          *)
VariantLineCount(v) == IF v.tag = "StructVariant" THEN Len(v.fields) + 2 ELSE 1

RECURSIVE VariantLinesBefore(_, _)
VariantLinesBefore(variants, i) ==
  IF i <= 1 THEN 0
  ELSE VariantLinesBefore(variants, i - 1) + VariantLineCount(variants[i - 1])

(* C1: a rendered enum has its declaration line and its closing brace at   *)
(* exactly lvl units, the first line of every variant at exactly lvl + 1   *)
(* units, every field line of a struct variant at exactly lvl + 2 units    *)
(* and the struct variant's closing "}," at exactly lvl + 1 units.         *)
EnumLinesIndented ==
  (phase = "rendered" /\ comp.kind = "Enum") =>
    LET L == SplitNL(out)
        c == IF Len(comp.cfg) = 0 THEN 0 ELSE 1
        nv == Len(comp.variants)
        First(i) == c + 2 + VariantLinesBefore(comp.variants, i)
    IN /\ Len(L) = c + 3 + VariantLinesBefore(comp.variants, nv + 1)
       /\ ExactUnits(L[c + 1], lvl)
       /\ L[Len(L) - 1] = indent_string(lvl) \o CloseBrace
       /\ \A i \in 1..nv :
            LET v == comp.variants[i]
            IN /\ ExactUnits(L[First(i)], lvl + 1)
               /\ v.tag = "StructVariant" =>
                    /\ \A k \in 1..Len(v.fields) : ExactUnits(L[First(i) + k], lvl + 2)
                    /\ L[First(i) + Len(v.fields) + 1]
                         = indent_string(lvl + 1) \o CloseBrace \o <<",">>

----------------------------------------------------------------------------
(* An enum variant: built by the constructors or by the builder.           *)

SeqsUpTo(S, k) == UNION {[1..n -> S] : n \in 0..k}

BuilderTypes == {<<"T">>, <<"u">>}

InitVariant ==
  /\ \/ \E n \in Names :
          /\ comp = EnumVariantBuilder_new(n)
          /\ calls = <<[op |-> "new", name |-> n, tp |-> <<>>]>>
          /\ stack = <<>>
     \/ /\ comp \in
            {EnumVariant_new_struct(n, fs) :
               n \in Names, fs \in SeqsUpTo(FieldInputs, MaxFields)}
            \cup {EnumVariant_new_value(n, ts) :
                    n \in Names, ts \in SeqsUpTo(TypeNames, MaxFields)}
            \cup {EnumVariant_new_empty(n) : n \in Names}
        /\ calls = <<>>
        /\ stack = <<>>
  /\ out = <<>>
  /\ lvl = 0
  /\ phase = "build"

BuilderWithField ==
  \E n \in FieldNames, tp \in BuilderTypes :
    /\ comp.kind = "EnumVariantBuilder"
    /\ Len(comp.fields) < MaxFields
    /\ Called(EnumVariantBuilder_push_field(comp, n, tp),
              [op |-> "push_field", name |-> n, tp |-> tp])

BuilderWithValue ==
  \E tp \in BuilderTypes :
    /\ comp.kind = "EnumVariantBuilder"
    /\ Len(comp.fields) < MaxFields
    /\ Called(EnumVariantBuilder_push_value(comp, tp),
              [op |-> "push_value", name |-> <<>>, tp |-> tp])

BuilderBuild ==
  /\ comp.kind = "EnumVariantBuilder"
  /\ Called(EnumVariantBuilder_build(comp), [op |-> "build", name |-> <<>>, tp |-> <<>>])

VariantRender ==
  /\ comp.kind = "EnumVariant"
  /\ \E n \in Levels : Rendered(EnumVariant_to_rust_string(comp, n), n)

NextVariant ==
  \/ BuilderWithField
  \/ BuilderWithValue
  \/ BuilderBuild
  \/ VariantRender

SpecVariant == InitVariant /\ [][NextVariant]_vars

(* The calls of the given kind among cs, in call order.                    *)
RECURSIVE CallsOf(_, _)
CallsOf(cs, op) ==
  IF Len(cs) = 0 THEN <<>>
  ELSE (IF cs[1].op = op THEN <<cs[1]>> ELSE <<>>) \o CallsOf(Tail(cs), op)

BuilderHistory == SubSeq(calls, 2, Len(calls) - 1)

Built == Len(calls) >= 2 /\ calls[Len(calls)].op = "build"

(* C11: whatever the order of the with_field/push_field and                *)
(* with_value/push_value calls made on a builder, build() returns an       *)
(* EmptyVariant when no call was made, a ValueVariant holding the value    *)
(* types in call order when only value calls were made, and a              *)
(* StructVariant when a field call was made at any position; the variant   *)
(* keeps the builder's name.                                               *)
BuilderVariantKind ==
  Built =>
    LET fieldCalls == CallsOf(BuilderHistory, "push_field")
        valueCalls == CallsOf(BuilderHistory, "push_value")
    IN /\ comp.kind = "EnumVariant"
       /\ comp.name = calls[1].name
       /\ Len(BuilderHistory) = 0 => comp.tag = "EmptyVariant"
       /\ (Len(fieldCalls) = 0 /\ Len(valueCalls) > 0) =>
            /\ comp.tag = "ValueVariant"
            /\ comp.types = [i \in 1..Len(valueCalls) |-> valueCalls[i].tp]
       /\ Len(fieldCalls) > 0 => comp.tag = "StructVariant"

(* A field call followed by a value call, then build(): a StructVariant.   *)
BuilderVariantKindWitness ==
  /\ Built
  /\ Len(calls) = 4
  /\ calls[2].op = "push_field"
  /\ calls[3].op = "push_value"
  /\ comp.tag = "StructVariant"
  /\ phase = "rendered"

AllPrivate(fields) ==
  [i \in 1..Len(fields) |-> Field_private(fields[i].name, fields[i].field_type)]

(* C10: a rendered struct variant shows every field as "name: type," with  *)
(* no visibility keyword, so its text is that of the same variant with     *)
(* every field private.                                                    *)
VariantFieldsHideVisibility ==
  (phase = "rendered" /\ comp.kind = "EnumVariant" /\ comp.tag = "StructVariant") =>
    LET L == SplitNL(out)
    IN /\ Len(L) = Len(comp.fields) + 2
       /\ \A i \in 1..Len(comp.fields) :
            L[i + 1] = indent_string(lvl + 1) \o comp.fields[i].name \o ColonSp
                         \o comp.fields[i].field_type \o <<",">>
       /\ out = EnumVariant_to_rust_string(
                  [comp EXCEPT !.fields = AllPrivate(comp.fields)], lvl)

(* C12: an EmptyVariant renders as n units + "Name,"; a ValueVariant as    *)
(* n units + "Name(" + the types joined by ", " + "),"; a StructVariant as *)
(* n units + "Name {", one line "field: type," per field at n+1 units in   *)
(* order, then n units + "},"; none of them ends with a newline.           *)
VariantText ==
  (phase = "rendered" /\ comp.kind = "EnumVariant") =>
    /\ ~EndsWith(out, <<NL>>)
    /\ comp.tag = "EmptyVariant" =>
         out = indent_string(lvl) \o comp.name \o <<",">>
    /\ comp.tag = "ValueVariant" =>
         out = indent_string(lvl) \o comp.name \o <<"(">>
                 \o Join(comp.types, CommaSp) \o <<")", ",">>
    /\ comp.tag = "StructVariant" =>
         SplitNL(out) =
           <<indent_string(lvl) \o comp.name \o <<SP>> \o OpenBrace>>
           \o [i \in 1..Len(comp.fields) |->
                 indent_string(lvl + 1) \o comp.fields[i].name \o ColonSp
                   \o comp.fields[i].field_type \o <<",">>]
           \o <<indent_string(lvl) \o CloseBrace \o <<",">>>>

(* C26 as stated: the first item added to a builder decides the shape of   *)
(* the built variant, a ValueVariant after a first value call and a        *)
(* StructVariant after a first field call, whatever calls follow.          *)
FirstCallDecides ==
  (Built /\ Len(BuilderHistory) > 0) =>
    /\ BuilderHistory[1].op = "push_value" => comp.tag = "ValueVariant"
    /\ BuilderHistory[1].op = "push_field" => comp.tag = "StructVariant"

(* C26: a first field call makes the built variant a StructVariant         *)
(* whatever calls follow; a first value call makes it a ValueVariant       *)
(* exactly when no field call follows, and a StructVariant as soon as one  *)
(* does.                                                                   *)
FirstCallAndLaterFields ==
  (Built /\ Len(BuilderHistory) > 0) =>
    LET fieldCalls == CallsOf(BuilderHistory, "push_field")
    IN /\ BuilderHistory[1].op = "push_field" => comp.tag = "StructVariant"
       /\ BuilderHistory[1].op = "push_value" =>
            /\ Len(fieldCalls) = 0 => comp.tag = "ValueVariant"
            /\ Len(fieldCalls) > 0 => comp.tag = "StructVariant"

(* A value call followed by a field call, then build(): a StructVariant.   *)
FirstCallAndLaterFieldsWitness ==
  /\ Built
  /\ Len(calls) = 4
  /\ calls[2].op = "push_value"
  /\ calls[3].op = "push_field"
  /\ comp.tag = "StructVariant"

----------------------------------------------------------------------------
(* The method under construction.                                          *)

InitMethod ==
  /\ comp \in {RustMethod_new(n) : n \in Names}
  /\ out = <<>>
  /\ lvl = 0
  /\ phase = "build"
  /\ calls = <<>>
  /\ stack = <<>>

MethodWithFnType == \E tp \in FnTypes : Configured(RustMethod_set_fn_type(comp, tp))

MethodWithVisibility ==
  \E v \in Visibilities : Configured(RustMethod_set_visibility(comp, v))

MethodWithArgument ==
  \E a \in Arguments :
    /\ Len(comp.arguments) < MaxArgs
    /\ Configured(RustMethod_push_argument(comp, a))

MethodWithReturnType ==
  \E r \in ReturnTypes : Configured(RustMethod_set_return_type(comp, r))

MethodWithBody == \E b \in Bodies : Configured(RustMethod_set_body(comp, b))

MethodWithTemplate ==
  \E t \in TemplateIds :
    /\ Len(comp.templates) < MaxGenerics
    /\ Configured(RustMethod_push_template(comp, t))

MethodWithLifetime ==
  \E l \in LifetimeIds :
    /\ Len(comp.lifetimes) < MaxGenerics
    /\ Configured(RustMethod_push_lifetime(comp, l))

MethodRender == \E n \in Levels : Rendered(RustMethod_to_rust_string(comp, n), n)

NextMethod ==
  \/ MethodWithFnType
  \/ MethodWithVisibility
  \/ MethodWithArgument
  \/ MethodWithReturnType
  \/ MethodWithBody
  \/ MethodWithTemplate
  \/ MethodWithLifetime
  \/ MethodRender

SpecMethod == InitMethod /\ [][NextMethod]_vars

(* The signature line the contract describes, piece by piece.              *)
SignatureOf(m, n) ==
  LET vis == IF m.visibility = "Public" THEN K_pub \o <<SP>>
             ELSE IF m.visibility = "CrateVisible" THEN K_pub_crate \o <<SP>>
             ELSE <<>>
      qual == IF m.fn_type = <<>> THEN <<>> ELSE m.fn_type \o <<SP>>
      ret == IF m.return_type = <<>> THEN <<>> ELSE Arrow \o m.return_type \o <<SP>>
  IN indent_string(n) \o vis \o qual \o K_fn \o <<SP>> \o m.name
     \o create_template_string(m.templates, m.lifetimes)
     \o <<"(">> \o Join(m.arguments, CommaSp) \o <<")", SP>> \o ret \o OpenBrace

Bare(m) ==
  /\ m.visibility = "Private"
  /\ m.fn_type = <<>>
  /\ m.return_type = <<>>
  /\ m.templates = <<>>
  /\ m.lifetimes = <<>>
  /\ m.arguments = <<>>

(* C4: the first line of a rendered method is lvl indentation units, the   *)
(* visibility keyword and a space (unless Private), the qualifier and a    *)
(* space (unless empty), "fn ", the name, the generic clause, the          *)
(* arguments joined by ", " in parentheses, a space, "-> " with the return *)
(* type and a space (unless empty) and "{"; it has exactly lvl units and   *)
(* no doubled space, and with nothing optional set it is "fn name() {".    *)
MethodSignature ==
  (phase = "rendered" /\ comp.kind = "Method") =>
    LET L == SplitNL(out)
    IN /\ Len(L) >= 3
       /\ L[1] = SignatureOf(comp, lvl)
       /\ ExactUnits(L[1], lvl)
       /\ ~Contains(Drop(L[1], TAB_SIZE * lvl), <<SP, SP>>)
       /\ Bare(comp) =>
            L[1] = indent_string(lvl) \o K_fn \o <<SP>> \o comp.name
                     \o <<"(", ")", SP>> \o OpenBrace

(* A method with a visibility, a qualifier, a return type, generics and    *)
(* two arguments, rendered below the top level.                            *)
MethodSignatureWitness ==
  /\ phase = "rendered"
  /\ comp.kind = "Method"
  /\ lvl > 0
  /\ comp.visibility = "CrateVisible"
  /\ comp.fn_type # <<>>
  /\ comp.return_type # <<>>
  /\ Len(comp.arguments) = 2
  /\ comp.templates # <<>>
  /\ comp.lifetimes # <<>>

(* The lines of a body: the pieces between its line breaks, a line break   *)
(* that ends the body starting no further line.                            *)
BodyLinesOf(body) ==
  LET pieces == SplitNL(body)
  IN IF Len(pieces[Len(pieces)]) = 0 THEN SubSeq(pieces, 1, Len(pieces) - 1)
     ELSE pieces

(* C25: a rendered method has one line per line of its body after the      *)
(* signature line, in order, each exactly lvl + 1 indentation units        *)
(* followed by the body line unchanged; a line break closing the body and  *)
(* an empty body add no line, so the text has 2 + (number of body lines)   *)
(* lines and ends with the closing brace at lvl units on its own line.     *)
MethodBody ==
  (phase = "rendered" /\ comp.kind = "Method") =>
    LET L == SplitNL(out)
        B == BodyLinesOf(comp.body)
    IN /\ Len(L) = 2 + Len(B) + 1
       /\ \A i \in 1..Len(B) : L[i + 1] = indent_string(lvl + 1) \o B[i]
       /\ L[Len(B) + 2] = indent_string(lvl) \o CloseBrace
       /\ L[Len(L)] = <<>>

(* A body with a blank line and an indented line, rendered at level 2, and *)
(* a body closed by a line break.                                          *)
MethodBodyWitness ==
  /\ phase = "rendered"
  /\ comp.kind = "Method"
  /\ lvl = 2
  /\ comp.body = <<"a", ";", NL, NL, SP, "b", ";">>
  /\ Len(SplitNL(out)) = 6

----------------------------------------------------------------------------
(* The generic-clause formatter applied to lists of identifiers.           *)

TplIdentifiers == {<<>>, <<"T">>, <<"U">>}
LifetimeIdentifiers == {<<>>, <<"a">>, <<"b">>}

InitTemplate ==
  /\ comp \in {[kind |-> "TemplateUsage", templates |-> ts, lifetimes |-> ls] :
                 ts \in SeqsUpTo(TplIdentifiers, MaxTplItems),
                 ls \in SeqsUpTo(LifetimeIdentifiers, MaxTplItems)}
  /\ out = <<>>
  /\ lvl = 0
  /\ phase = "build"
  /\ calls = <<>>
  /\ stack = <<>>

(* create_template_string either aborts inside create_lifetime_string or   *)
(* returns its text.                                                       *)
TemplateCreate ==
  /\ phase = "build"
  /\ IF create_lifetime_string_panics(comp.lifetimes)
     THEN phase' = "aborted" /\ UNCHANGED <<comp, out, lvl, calls, stack>>
     ELSE Rendered(create_template_string(comp.templates, comp.lifetimes), 0)

NextTemplate == TemplateCreate

SpecTemplate == InitTemplate /\ [][NextTemplate]_vars

(* Every lifetime with its apostrophe, in order, then every template.      *)
ClauseItems(templates, lifetimes) ==
  [i \in 1..Len(lifetimes) |-> <<"'">> \o lifetimes[i]] \o templates

(* C5: the generic clause is empty when both lists are empty and otherwise *)
(* "<", every lifetime (with its apostrophe) then every template, in       *)
(* insertion order and joined by ", ", and ">".                            *)
TemplateClause ==
  (phase = "rendered" /\ comp.kind = "TemplateUsage") =>
    IF Len(comp.templates) = 0 /\ Len(comp.lifetimes) = 0
    THEN out = <<>>
    ELSE out = <<"<">> \o Join(ClauseItems(comp.templates, comp.lifetimes), CommaSp)
                 \o <<">">>

(* C23: the formatter never aborts, whatever the lists and the strings in  *)
(* them (empty strings and empty lists included); on two empty lists it    *)
(* returns the empty string, the unsigned len - 1 being evaluated only     *)
(* inside the loop, where len is at least 1.                               *)
FormatterNeverAborts ==
  comp.kind = "TemplateUsage" =>
    /\ phase # "aborted"
    /\ ~create_lifetime_string_panics(comp.lifetimes)
    /\ (phase = "rendered" /\ Len(comp.templates) = 0 /\ Len(comp.lifetimes) = 0)
         => out = <<>>

(* Two empty lists formatted: nothing aborted and the text is empty.       *)
FormatterNeverAbortsWitness ==
  /\ phase = "rendered"
  /\ comp.kind = "TemplateUsage"
  /\ Len(comp.templates) = 0
  /\ Len(comp.lifetimes) = 0
  /\ out = <<>>

(* The number of places where the separator ", " stands in s.              *)
Separators(s) ==
  Cardinality({i \in 1..(Len(s) - 1) : SubSeq(s, i, i + 1) = CommaSp})

(* C30: the generic clause is bracketed whenever one of the two lists has  *)
(* an element, whatever the elements are (the empty string included), it   *)
(* is left out only when both lists have no element, and it holds exactly  *)
(* (lifetimes + templates - 1) separators ", ".                            *)
TemplateClauseByLength ==
  (phase = "rendered" /\ comp.kind = "TemplateUsage") =>
    LET n == Len(comp.lifetimes) + Len(comp.templates)
    IN /\ out = <<>> <=> n = 0
       /\ n > 0 =>
            /\ out[1] = "<"
            /\ out[Len(out)] = ">"
            /\ Separators(out) = n - 1

----------------------------------------------------------------------------
(* The module under construction.                                          *)

ModuleChildren == {MethodChild, StructChild, TextChild, ModuleChild}

InitModule ==
  /\ comp \in {RustModule_new(n) : n \in Names}
  /\ out = <<>>
  /\ lvl = 0
  /\ phase = "build"
  /\ calls = <<>>
  /\ stack = <<>>

ModuleWithCfg == \E c \in Cfgs : Configured(RustModule_set_cfg(comp, c))

ModuleWithVisibility ==
  \E v \in Visibilities : Configured(RustModule_set_visibility(comp, v))

ModuleWithImport ==
  \E i \in Imports :
    /\ Len(comp.imports) < MaxImports
    /\ Configured(RustModule_push_import(comp, i))

ModuleWithComponents ==
  \E cs \in SeqsUpTo(ModuleChildren, MaxComponents) :
    Configured(RustModule_set_components(comp, cs))

ModuleWithComponent ==
  \E c \in ModuleChildren :
    /\ Len(comp.components) < MaxComponents
    /\ Configured(RustModule_push_component(comp, c))

(* A rendering that takes the children out of the module it renders.       *)
ModuleRender_Drain ==
  \E n \in Levels :
    /\ out' = RustModule_to_rust_string(comp, n)
    /\ lvl' = n
    /\ phase' = "rendered"
    /\ comp' = RustModule_set_components(comp, <<>>)
    /\ UNCHANGED <<calls, stack>>

ModuleRender == \E n \in Levels : Rendered(RustModule_to_rust_string(comp, n), n)

NextModule ==
  \/ ModuleWithCfg
  \/ ModuleWithVisibility
  \/ ModuleWithImport
  \/ ModuleWithComponents
  \/ ModuleWithComponent
  \/ ModuleRender

SpecModule == InitModule /\ [][NextModule]_vars

VisPrefix(v) ==
  IF v = "Public" THEN K_pub \o <<SP>>
  ELSE IF v = "CrateVisible" THEN K_pub_crate \o <<SP>>
  ELSE <<>>

(* The text after the first k lines of s.                                  *)
RECURSIVE DropLines(_, _)
DropLines(s, k) ==
  IF k = 0 \/ ~HasNL(s) THEN s ELSE DropLines(SubSeq(s, FirstNL(s) + 1, Len(s)), k - 1)

(* C3: every line a rendered module emits itself - its cfg line (when cfg  *)
(* is non-empty), its "mod" line and its closing brace - starts with       *)
(* exactly lvl indentation units, and every import line and the first line *)
(* of every child component with exactly lvl + 1 units.                    *)
ModuleLinesIndented ==
  (phase = "rendered" /\ comp.kind = "Module") =>
    LET L == SplitNL(out)
        c == IF Len(comp.cfg_options) = 0 THEN 0 ELSE 1
    IN /\ (c = 1 => L[1] = indent_string(lvl) \o comp.cfg_options)
       /\ L[c + 1] = indent_string(lvl) \o VisPrefix(comp.visibility) \o K_mod \o <<SP>>
                       \o comp.name \o <<SP>> \o OpenBrace
       /\ EndsWith(out, indent_string(lvl) \o CloseBrace \o <<NL>>)
       /\ \A i \in 1..Len(comp.imports) : ExactUnits(L[c + 1 + i], lvl + 1)
       /\ \A i \in 1..Len(comp.components) :
            ExactUnits(
              SplitNL(RustComponent_to_rust_string(comp.components[i], lvl + 1))[1],
              lvl + 1)

(* C8: after the "mod" line of a rendered module come its imports, in      *)
(* order, each on its own line as "import;" at lvl + 1 units; then exactly *)
(* one blank line if and only if there is an import; then the renderings   *)
(* of its components at level lvl + 1, in order; then the closing brace.   *)
ModuleBody ==
  (phase = "rendered" /\ comp.kind = "Module") =>
    LET L == SplitNL(out)
        c == IF Len(comp.cfg_options) = 0 THEN 0 ELSE 1
        ni == Len(comp.imports)
        rest == DropLines(out, c + 1 + ni)
        children == Concat([i \in 1..Len(comp.components) |->
                      RustComponent_to_rust_string(comp.components[i], lvl + 1)])
        closing == indent_string(lvl) \o CloseBrace \o <<NL>>
    IN /\ EndsWith(L[c + 1], K_mod \o <<SP>> \o comp.name \o <<SP>> \o OpenBrace)
       /\ \A i \in 1..ni :
            L[c + 1 + i] = indent_string(lvl + 1) \o comp.imports[i] \o <<";">>
       /\ IF ni > 0 THEN rest = <<NL>> \o children \o closing
          ELSE rest = children \o closing

(* A module with two different imports and two different components,       *)
(* rendered below the top level.                                           *)
ModuleBodyWitness ==
  /\ phase = "rendered"
  /\ comp.kind = "Module"
  /\ lvl > 0
  /\ Len(comp.imports) = 2
  /\ comp.imports[1] # comp.imports[2]
  /\ Len(comp.components) = 2
  /\ comp.components[1] # comp.components[2]

(* C29: in a rendered module the text of every child, whatever its kind,   *)
(* begins at the start of a line, and so does the closing brace: nothing   *)
(* is appended to the last line of the child before it.                    *)
ModuleChildrenStartLines ==
  (phase = "rendered" /\ comp.kind = "Module") =>
    LET texts == [i \in 1..Len(comp.components) |->
                   RustComponent_to_rust_string(comp.components[i], lvl + 1)]
        closing == indent_string(lvl) \o CloseBrace \o <<NL>>
        first == Len(out) - Len(closing) - Len(Concat(texts)) + 1
        start(i) == first + Len(Concat(SubSeq(texts, 1, i - 1)))
        AtLineStart(pos) == pos = 1 \/ out[pos - 1] = NL
    IN /\ \A i \in 1..Len(texts) :
            /\ SubSeq(out, start(i), start(i) + Len(texts[i]) - 1) = texts[i]
            /\ AtLineStart(start(i))
       /\ AtLineStart(Len(out) - Len(closing) + 1)

----------------------------------------------------------------------------
(* The impl block under construction.                                      *)

ImplChildren == {MethodChild, StructChild, TextChild, VariableChild}

InitImpl ==
  /\ comp \in {RustImplementation_new(n) : n \in Names}
            \cup {RustImplementation_new_for(<<"Q">>, n) : n \in Names}
  /\ out = <<>>
  /\ lvl = 0
  /\ phase = "build"
  /\ calls = <<>>
  /\ stack = <<>>

ImplWithComponent ==
  \E c \in ImplChildren :
    /\ Len(comp.components) < MaxComponents
    /\ Configured(RustImplementation_push_component(comp, c))

ImplWithLifetime ==
  \E l \in LifetimeIds :
    /\ Len(comp.impl_lifetimes) < MaxGenerics
    /\ Len(comp.target_lifetimes) < MaxGenerics
    /\ Configured(RustImplementation_push_lifetime(comp, l))

ImplWithImplLifetime ==
  \E l \in LifetimeIds :
    /\ Len(comp.impl_lifetimes) < MaxGenerics
    /\ Configured(RustImplementation_push_impl_lifetime(comp, l))

ImplWithTargetLifetime ==
  \E l \in LifetimeIds :
    /\ Len(comp.target_lifetimes) < MaxGenerics
    /\ Configured(RustImplementation_push_target_lifetime(comp, l))

ImplWithTemplate ==
  \E t \in TemplateIds :
    /\ Len(comp.impl_templates) < MaxGenerics
    /\ Len(comp.target_templates) < MaxGenerics
    /\ Configured(RustImplementation_push_template(comp, t))

ImplWithImplTemplate ==
  \E t \in TemplateIds :
    /\ Len(comp.impl_templates) < MaxGenerics
    /\ Configured(RustImplementation_push_impl_template(comp, t))

ImplWithTargetTemplate ==
  \E t \in TemplateIds :
    /\ Len(comp.target_templates) < MaxGenerics
    /\ Configured(RustImplementation_push_target_template(comp, t))

ImplWithExtra == \E e \in Extras : Configured(RustImplementation_set_extra(comp, e))

ImplRender == \E n \in Levels : Rendered(RustImplementation_to_rust_string(comp, n), n)

NextImpl ==
  \/ ImplWithComponent
  \/ ImplWithLifetime
  \/ ImplWithImplLifetime
  \/ ImplWithTargetLifetime
  \/ ImplWithTemplate
  \/ ImplWithImplTemplate
  \/ ImplWithTargetTemplate
  \/ ImplWithExtra
  \/ ImplRender

SpecImpl == InitImpl /\ [][NextImpl]_vars

(* C6: with a non-empty extra, the first line of a rendered impl block is  *)
(* lvl units, "impl", the impl-side generic clause, a space, the name, the *)
(* target-side generic clause, a space, the extra text and " {".           *)
ImplExtraBeforeBrace ==
  (phase = "rendered" /\ comp.kind = "Implementation" /\ Len(comp.extra) > 0) =>
    SplitNL(out)[1] =
      indent_string(lvl) \o K_impl
      \o create_template_string(comp.impl_templates, comp.impl_lifetimes)
      \o <<SP>> \o comp.name
      \o create_template_string(comp.target_templates, comp.target_lifetimes)
      \o <<SP>> \o comp.extra \o <<SP>> \o OpenBrace

(* The lines of a rendering: the text without the newline that ends it.    *)
Chomp(s) == IF Len(s) > 0 /\ s[Len(s)] = NL THEN SubSeq(s, 1, Len(s) - 1) ELSE s

BlankLines == {Repeat(<<NL>>, j) : j \in 0..3}

(* C7: in a rendered impl block the components follow the first line at    *)
(* level lvl + 1, in order, any two consecutive ones separated by exactly  *)
(* one blank line whatever their kind; the closing brace is at lvl units   *)
(* and ends the text with a newline.  (The blank lines between the last    *)
(* component and the closing brace are left open.)                         *)
ImplChildrenSeparated ==
  (phase = "rendered" /\ comp.kind = "Implementation") =>
    LET first == SplitNL(out)[1]
        texts == [i \in 1..Len(comp.components) |->
                   Chomp(RustComponent_to_rust_string(comp.components[i], lvl + 1))]
        closing == indent_string(lvl) \o CloseBrace \o <<NL>>
    IN IF Len(comp.components) = 0 THEN out = first \o <<NL>> \o closing
       ELSE \E blank \in BlankLines :
              out = first \o <<NL>> \o Join(texts, <<NL, NL>>) \o <<NL>> \o blank
                      \o closing

----------------------------------------------------------------------------
(* The file under construction.                                            *)

FileChildren == {StructChild, MethodChild, TextChild, ModuleChild}
Docstrings == {<<"d">>, <<"d", NL, "e">>}
MiscTexts == {<<>>, <<"/", "/", "x">>}

InitFile ==
  /\ comp = RustFile_new
  /\ out = <<>>
  /\ lvl = 0
  /\ phase = "build"
  /\ calls = <<>>
  /\ stack = <<>>

FileWithComponents ==
  \E cs \in SeqsUpTo(FileChildren, MaxComponents) :
    Configured(RustFile_with_components(comp, cs))

FileWithComponent ==
  \E c \in FileChildren :
    /\ Len(comp.root_components) < MaxComponents
    /\ Configured(RustFile_push_component(comp, c))

FileWithImports ==
  \E is \in SeqsUpTo(Imports, MaxImports) : Configured(RustFile_with_imports(comp, is))

FileWithImport ==
  \E i \in Imports :
    /\ Len(comp.imports) < MaxImports
    /\ Configured(RustFile_push_import(comp, i))

FileWithDocstring ==
  \E s \in Docstrings : Configured(RustFile_with_file_docstring(comp, s))

FileWithTopString == \E s \in MiscTexts : Configured(RustFile_with_top_string(comp, s))

FileWithBottomString ==
  \E s \in MiscTexts : Configured(RustFile_with_bottom_string(comp, s))

FileIntoRustCode == Rendered(RustFile_into_rust_code(comp), 0)

(* to_rust_code(&self): the file is left as it is and out is the text the  *)
(* borrowing call returned.                                                *)
FileToRustCode ==
  /\ out' = RustFile_to_rust_code(comp)
  /\ lvl' = 0
  /\ phase' = "rendered_by_ref"
  /\ UNCHANGED <<comp, calls, stack>>

NextFile ==
  \/ FileWithComponents
  \/ FileWithComponent
  \/ FileWithImports
  \/ FileWithImport
  \/ FileWithDocstring
  \/ FileWithTopString
  \/ FileWithBottomString
  \/ FileIntoRustCode
  \/ FileToRustCode

SpecFile == InitFile /\ [][NextFile]_vars

(* The sequence without its empty members.                                 *)
RECURSIVE NonEmpty(_)
NonEmpty(strs) ==
  IF Len(strs) = 0 THEN <<>>
  ELSE IF Len(strs[1]) = 0 THEN NonEmpty(Tail(strs))
  ELSE <<strs[1]>> \o NonEmpty(Tail(strs))

(* C9: the document is the non-empty sections in the order docstring,      *)
(* imports (each "import;" on its own line), top text, root components     *)
(* (rendered at level 0, in order), bottom text; consecutive sections, and *)
(* consecutive root components, are separated by exactly one blank line,   *)
(* and an empty section leaves nothing.  (The line breaks that end the     *)
(* document are left open.)                                                *)
FileSections ==
  (phase = "rendered" /\ comp.kind = "File") =>
    LET imports == Join([i \in 1..Len(comp.imports) |-> comp.imports[i] \o <<";">>],
                        <<NL>>)
        components ==
          Join([i \in 1..Len(comp.root_components) |->
                  Chomp(RustComponent_to_rust_string(comp.root_components[i], 0))],
               <<NL, NL>>)
        sections == NonEmpty(<<comp.file_docstring, imports, comp.top_misc, components,
                               comp.bottom_misc>>)
    IN IF Len(sections) = 0 THEN out = <<>>
       ELSE \E blank \in BlankLines : out = Join(sections, <<NL, NL>>) \o blank

(* C22: with_file_docstring marks every line of its argument on its own    *)
(* with "//! ", the marker and one space: a file holding nothing but the   *)
(* docstring s renders as the marked lines of s and a newline, one marked  *)
(* line per line of s.                                                     *)
DocstringMarked ==
  (phase = "rendered" /\ comp.kind = "File") =>
    \A s \in Docstrings :
      comp = RustFile_with_file_docstring(RustFile_new, s) =>
        LET pieces == split_inclusive(s)
            marked == [i \in 1..Len(pieces) |-> <<"/", "/", "!", SP>> \o pieces[i]]
        IN /\ out = Concat(marked) \o <<NL>>
           /\ Len(SplitNL(out)) = Len(pieces) + 1

(* C27: with_components and with_imports add to the file: the root         *)
(* components and the imports a file holds before a call are still there,  *)
(* in order and ahead of what the call adds, after it.                     *)
FileListsKeepEarlier ==
  [][comp.kind = "File" =>
       /\ StartsWith(comp'.root_components, comp.root_components)
       /\ StartsWith(comp'.imports, comp.imports)]_vars

(* C28: whatever the file holds, the text the borrowing to_rust_code       *)
(* returns is the document the consuming into_rust_code returns for the    *)
(* same file.                                                              *)
BorrowedSameAsConsumed ==
  (phase = "rendered_by_ref" /\ comp.kind = "File") =>
    out = RustFile_into_rust_code(comp)

----------------------------------------------------------------------------
(* The variable under construction.                                        *)

VarTypes == {<<>>, <<"u", "8">>}
VarValues == {<<>>, <<"5", "2">>}

InitVariable ==
  /\ comp \in {RustVariable_new_let(n) : n \in Names}
              \cup {RustVariable_new_const(n) : n \in Names}
              \cup {RustVariable_new_static(n) : n \in Names}
  /\ out = <<>>
  /\ lvl = 0
  /\ phase = "build"
  /\ calls = <<>>
  /\ stack = <<>>

VariableWithValue == \E v \in VarValues : Configured(RustVariable_set_value(comp, v))

VariableWithType == \E tp \in VarTypes : Configured(RustVariable_set_type(comp, tp))

VariableWithMut == Configured(RustVariable_set_mut(comp, TRUE))

VariableSetMut == \E mutable \in BOOLEAN : Configured(RustVariable_set_mut(comp, mutable))

VariableWithVisibility ==
  \E v \in Visibilities : Configured(RustVariable_set_visibility(comp, v))

VariableRender == \E n \in Levels : Rendered(RustVariable_to_rust_string(comp, n), n)

NextVariable ==
  \/ VariableWithValue
  \/ VariableWithType
  \/ VariableWithMut
  \/ VariableSetMut
  \/ VariableWithVisibility
  \/ VariableRender

SpecVariable == InitVariable /\ [][NextVariable]_vars

VariableKeyword(variable_type) ==
  CASE variable_type = "Regular" -> <<"l", "e", "t">>
    [] variable_type = "Const" -> <<"c", "o", "n", "s", "t">>
    [] variable_type = "Static" -> <<"s", "t", "a", "t", "i", "c">>

(* C18: a variable renders as exactly one line with no trailing newline:   *)
(* n units, the visibility and a space unless private, "let ", "const " or *)
(* "static ", "mut " only when mutable, the name, ": " and the type when   *)
(* the type is non-empty, " = " and the value when the value is non-empty, *)
(* and ";"; the type always comes before the value.                        *)
VariableLine ==
  (phase = "rendered" /\ comp.kind = "Variable") =>
    /\ ~HasNL(out)
    /\ out = Concat(<<
         Repeat(<<SP>>, TAB_SIZE * lvl),
         VisPrefix(comp.visibility),
         VariableKeyword(comp.variable_type), <<SP>>,
         IF comp.is_mut THEN <<"m", "u", "t", SP>> ELSE <<>>,
         comp.name,
         IF comp.tp = <<>> THEN <<>> ELSE <<":", SP>> \o comp.tp,
         IF comp.value = <<>> THEN <<>> ELSE <<SP, "=", SP>> \o comp.value,
         <<";">> >>)

(* A public mutable static with a type and a value, rendered at level 1.   *)
VariableLineWitness ==
  /\ phase = "rendered"
  /\ comp.kind = "Variable"
  /\ lvl = 1
  /\ comp.visibility = "Public"
  /\ comp.variable_type = "Static"
  /\ comp.is_mut
  /\ comp.tp # <<>>
  /\ comp.value # <<>>

----------------------------------------------------------------------------
(* The trait under construction.                                           *)

MaxBounds == 2

TraitBounds == {<<"D">>, <<"E">>}
TraitChildren == {MethodChild, TextChild}

InitTrait ==
  /\ comp \in {RustTrait_new(n) : n \in Names}
  /\ out = <<>>
  /\ lvl = 0
  /\ phase = "build"
  /\ calls = <<>>
  /\ stack = <<>>

TraitWithVisibility ==
  \E v \in Visibilities : Configured(RustTrait_set_visibility(comp, v))

TraitWithBound ==
  \E b \in TraitBounds :
    /\ Len(comp.bounds) < MaxBounds
    /\ Configured(RustTrait_push_bound(comp, b))

TraitWithComponent ==
  \E c \in TraitChildren :
    /\ Len(comp.components) < MaxComponents
    /\ Configured(RustTrait_push_component(comp, c))

TraitWithLifetime ==
  \E l \in LifetimeIds :
    /\ Len(comp.lifetimes) < MaxGenerics
    /\ Configured(RustTrait_push_lifetime(comp, l))

TraitWithTemplate ==
  \E t \in TemplateIds :
    /\ Len(comp.templates) < MaxGenerics
    /\ Configured(RustTrait_push_template(comp, t))

TraitWithCfg == \E c \in Cfgs : Configured(RustTrait_set_cfg(comp, c))

TraitWithExtra == \E e \in Extras : Configured(RustTrait_set_extra(comp, e))

TraitRender == \E n \in Levels : Rendered(RustTrait_to_rust_string(comp, n), n)

NextTrait ==
  \/ TraitWithVisibility
  \/ TraitWithBound
  \/ TraitWithComponent
  \/ TraitWithLifetime
  \/ TraitWithTemplate
  \/ TraitWithCfg
  \/ TraitWithExtra
  \/ TraitRender

SpecTrait == InitTrait /\ [][NextTrait]_vars

(* Each child's text at level n, its last line ended, then one empty line. *)
RECURSIVE ChildrenEachThenBlank(_, _)
ChildrenEachThenBlank(components, n) ==
  IF Len(components) = 0 THEN <<>>
  ELSE Chomp(RustComponent_to_rust_string(components[1], n)) \o <<NL, NL>>
       \o ChildrenEachThenBlank(Tail(components), n)

(* C17: a trait renders as the cfg line at n units when cfg is non-empty,  *)
(* then at n units "[visibility ]trait Name" + the generic clause + ": "   *)
(* and the bounds joined by " + " when there are bounds + a space and      *)
(* extra when extra is non-empty + " {", then every child at level n+1 in  *)
(* insertion order, each one (the last too) followed by exactly one blank  *)
(* line, then the closing brace at n units and a newline.                  *)
TraitText ==
  (phase = "rendered" /\ comp.kind = "Trait") =>
    out = Concat(<<
      IF comp.cfg = <<>> THEN <<>> ELSE Repeat(<<SP>>, TAB_SIZE * lvl) \o comp.cfg \o <<NL>>,
      Repeat(<<SP>>, TAB_SIZE * lvl), VisPrefix(comp.visibility),
      <<"t", "r", "a", "i", "t", SP>>, comp.name,
      create_template_string(comp.templates, comp.lifetimes),
      IF comp.bounds = <<>> THEN <<>> ELSE <<":", SP>> \o Join(comp.bounds, <<SP, "+", SP>>),
      IF comp.extra = <<>> THEN <<>> ELSE <<SP>> \o comp.extra,
      <<SP, "{", NL>>,
      ChildrenEachThenBlank(comp.components, lvl + 1),
      Repeat(<<SP>>, TAB_SIZE * lvl), <<"}", NL>> >>)

----------------------------------------------------------------------------
(* Any construct under construction: the constructs of every kind, each    *)
(* configured and rendered by its own operations.                          *)

Texts == {<<>>, <<"/", "/", " ", "t">>, <<"a", ";", NL>>}

InitText ==
  /\ comp \in {RustText_new(t) : t \in Texts}
  /\ out = <<>>
  /\ lvl = 0
  /\ phase = "build"
  /\ calls = <<>>
  /\ stack = <<>>

TextRender == \E n \in Levels : Rendered(RustText_to_rust_string(comp, n), n)

InitComponent ==
  \/ InitModule
  \/ InitStruct
  \/ InitEnum
  \/ InitVariant
  \/ InitMethod
  \/ InitImpl
  \/ InitTrait
  \/ InitVariable
  \/ InitText

NextComponent ==
  \/ comp.kind = "Module" /\ NextModule
  \/ comp.kind = "Struct" /\ NextStruct
  \/ comp.kind = "Enum" /\ NextEnum
  \/ comp.kind \in {"EnumVariant", "EnumVariantBuilder"} /\ NextVariant
  \/ comp.kind = "Method" /\ NextMethod
  \/ comp.kind = "Implementation" /\ NextImpl
  \/ comp.kind = "Trait" /\ NextTrait
  \/ comp.kind = "Variable" /\ NextVariable
  \/ comp.kind = "Text" /\ TextRender

SpecComponent == InitComponent /\ [][NextComponent]_vars

NewlineKinds == {"Module", "Struct", "Enum", "Method", "Implementation", "Trait"}

(* C13 as stated: the text of every construct other than a Text ends with  *)
(* a newline, at every level.                                              *)
EndsWithNewline ==
  (phase = "rendered" /\ comp.kind # "Text") => EndsWith(out, <<NL>>)

(* C13: the text of a Module, Struct, Enum, Method, Implementation or      *)
(* Trait ends with a newline at every level; the text of an EnumVariant or *)
(* a Variable never does (it ends with "," or ";").                        *)
EndsWithNewlineByKind ==
  phase = "rendered" =>
    /\ comp.kind \in NewlineKinds => EndsWith(out, <<NL>>)
    /\ comp.kind = "EnumVariant" => EndsWith(out, <<",">>)
    /\ comp.kind = "Variable" => EndsWith(out, <<";">>)

(* A struct variant rendered at level 1: its text ends with "},".         *)
EndsWithNewlineWitness ==
  /\ phase = "rendered"
  /\ comp.kind = "EnumVariant"
  /\ comp.tag = "StructVariant"
  /\ lvl = 1
  /\ EndsWith(out, <<"}", ",">>)

ConstructKinds ==
  {"Module", "Struct", "Enum", "EnumVariant", "Method", "Implementation", "Trait",
   "Variable", "Text"}

(* C14: every construct kind has a variant of the RustComponent union, and *)
(* rendering the union value made from a construct at level n gives the    *)
(* text of the construct's own to_rust_string(n).                          *)
UnionRendersAsConstruct ==
  (phase = "rendered" /\ comp.kind \in ConstructKinds) =>
    /\ comp.kind \in RustComponentVariants
    /\ RustComponent_to_rust_string(comp, lvl) = out

Fresh ==
  CASE comp.kind = "Module" -> comp = RustModule_new(comp.name)
    [] comp.kind = "Struct" -> comp = RustStruct_new(comp.name)
    [] comp.kind = "Enum" -> comp = RustEnum_new(comp.name)
    [] comp.kind = "EnumVariant" -> comp = EnumVariant_new_empty(comp.name)
    [] comp.kind = "Method" -> comp = RustMethod_new(comp.name)
    [] comp.kind = "Implementation" -> comp = RustImplementation_new(comp.name)
    [] comp.kind = "Trait" -> comp = RustTrait_new(comp.name)
    [] comp.kind = "Variable" -> comp = RustVariable_new(comp.variable_type, comp.name)
    [] OTHER -> FALSE

OptionalFragments ==
  {<<"p", "u", "b">>, <<"<">>, <<">">>, <<":", SP>>, <<"-", ">", SP>>,
   <<SP, "=", SP>>, <<SP, SP>>}

BraceKinds == {"Module", "Struct", "Enum", "Method", "Implementation", "Trait"}

(* C20: a construct rendered with nothing but its name set shows no part   *)
(* of an optional fragment: no visibility keyword, no "<" or ">", no ": ", *)
(* no "-> ", no " = ", no cfg line, and, past the indentation, no doubled  *)
(* space; a fresh method is "fn x() {" and "}" and a fresh impl block is   *)
(* "impl x {" and "}", each line ended by a newline.                       *)
FreshHasNoOptionalFragment ==
  (phase = "rendered" /\ Fresh) =>
    LET L == SplitNL(out)
        indent == Repeat(<<SP>>, TAB_SIZE * lvl)
    IN /\ \A i \in 1..Len(L) : \A frag \in OptionalFragments :
            ~Contains(Drop(L[i], LeadingSpaces(L[i])), frag)
       /\ comp.kind \in BraceKinds =>
            /\ Len(L) = 3
            /\ L[2] = indent \o <<"}">>
            /\ L[3] = <<>>
       /\ comp.kind \in {"Variable", "EnumVariant"} => Len(L) = 1
       /\ comp.kind = "Method" =>
            out = indent \o <<"f", "n", SP>> \o comp.name \o <<"(", ")", SP, "{", NL>>
                    \o indent \o <<"}", NL>>
       /\ comp.kind = "Implementation" =>
            out = indent \o <<"i", "m", "p", "l", SP>> \o comp.name \o <<SP, "{", NL>>
                    \o indent \o <<"}", NL>>

(* A fresh impl block rendered at level 1.                                 *)
FreshHasNoOptionalFragmentWitness ==
  /\ phase = "rendered"
  /\ comp.kind = "Implementation"
  /\ Fresh
  /\ lvl = 1

----------------------------------------------------------------------------
(* A struct, a method, a module or an impl block configured by a recorded  *)
(* sequence of with_X / set_X / push_X calls.                              *)

MaxCalls == 3

ConfigChildren == {TextChild, MethodChild}

StructCalls ==
  {[op |-> "push_field", arg |-> f] : f \in FieldInputs}
  \cup {[op |-> "set_visibility", arg |-> v] : v \in Visibilities}
  \cup {[op |-> "push_template", arg |-> t] : t \in TemplateIds}
  \cup {[op |-> "push_lifetime", arg |-> l] : l \in LifetimeIds}
  \cup {[op |-> "set_extra", arg |-> e] : e \in Extras}
  \cup {[op |-> "set_cfg", arg |-> c] : c \in Cfgs}

MethodCalls ==
  {[op |-> "set_fn_type", arg |-> tp] : tp \in FnTypes}
  \cup {[op |-> "set_visibility", arg |-> v] : v \in Visibilities}
  \cup {[op |-> "push_argument", arg |-> a] : a \in Arguments}
  \cup {[op |-> "set_return_type", arg |-> r] : r \in ReturnTypes}
  \cup {[op |-> "set_body", arg |-> b] : b \in Bodies}
  \cup {[op |-> "push_template", arg |-> t] : t \in TemplateIds}
  \cup {[op |-> "push_lifetime", arg |-> l] : l \in LifetimeIds}

ModuleCalls ==
  {[op |-> "set_cfg", arg |-> c] : c \in Cfgs}
  \cup {[op |-> "set_visibility", arg |-> v] : v \in Visibilities}
  \cup {[op |-> "push_import", arg |-> i] : i \in Imports}
  \cup {[op |-> "set_components", arg |-> cs] : cs \in SeqsUpTo(ConfigChildren, MaxComponents)}
  \cup {[op |-> "push_component", arg |-> c] : c \in ConfigChildren}

ImplTemplateIds == {<<"B">>, <<"C">>}

ImplCalls ==
  {[op |-> "push_template", arg |-> t] : t \in ImplTemplateIds}
  \cup {[op |-> "push_impl_template", arg |-> t] : t \in ImplTemplateIds}
  \cup {[op |-> "push_target_template", arg |-> t] : t \in ImplTemplateIds}
  \cup {[op |-> "push_lifetime", arg |-> l] : l \in LifetimeIds}
  \cup {[op |-> "push_impl_lifetime", arg |-> l] : l \in LifetimeIds}
  \cup {[op |-> "push_target_lifetime", arg |-> l] : l \in LifetimeIds}
  \cup {[op |-> "set_extra", arg |-> e] : e \in Extras}

RustStruct_call(s, call) ==
  CASE call.op = "push_field" -> RustStruct_push_field(s, call.arg)
    [] call.op = "set_visibility" -> RustStruct_set_visibility(s, call.arg)
    [] call.op = "push_template" -> RustStruct_push_template(s, call.arg)
    [] call.op = "push_lifetime" -> RustStruct_push_lifetime(s, call.arg)
    [] call.op = "set_extra" -> RustStruct_set_extra(s, call.arg)
    [] call.op = "set_cfg" -> RustStruct_set_cfg(s, call.arg)

RustMethod_call(m, call) ==
  CASE call.op = "set_fn_type" -> RustMethod_set_fn_type(m, call.arg)
    [] call.op = "set_visibility" -> RustMethod_set_visibility(m, call.arg)
    [] call.op = "push_argument" -> RustMethod_push_argument(m, call.arg)
    [] call.op = "set_return_type" -> RustMethod_set_return_type(m, call.arg)
    [] call.op = "set_body" -> RustMethod_set_body(m, call.arg)
    [] call.op = "push_template" -> RustMethod_push_template(m, call.arg)
    [] call.op = "push_lifetime" -> RustMethod_push_lifetime(m, call.arg)

RustModule_call(m, call) ==
  CASE call.op = "set_cfg" -> RustModule_set_cfg(m, call.arg)
    [] call.op = "set_visibility" -> RustModule_set_visibility(m, call.arg)
    [] call.op = "push_import" -> RustModule_push_import(m, call.arg)
    [] call.op = "set_components" -> RustModule_set_components(m, call.arg)
    [] call.op = "push_component" -> RustModule_push_component(m, call.arg)

RustImplementation_call(r, call) ==
  CASE call.op = "push_template" -> RustImplementation_push_template(r, call.arg)
    [] call.op = "push_impl_template" -> RustImplementation_push_impl_template(r, call.arg)
    [] call.op = "push_target_template" -> RustImplementation_push_target_template(r, call.arg)
    [] call.op = "push_lifetime" -> RustImplementation_push_lifetime(r, call.arg)
    [] call.op = "push_impl_lifetime" -> RustImplementation_push_impl_lifetime(r, call.arg)
    [] call.op = "push_target_lifetime" -> RustImplementation_push_target_lifetime(r, call.arg)
    [] call.op = "set_extra" -> RustImplementation_set_extra(r, call.arg)

InitConfig ==
  /\ \E n \in Names :
       /\ comp \in {RustStruct_new(n), RustMethod_new(n), RustModule_new(n),
                    RustImplementation_new(n)}
       /\ calls = <<[op |-> "new", arg |-> n]>>
       /\ stack = <<>>
  /\ out = <<>>
  /\ lvl = 0
  /\ phase = "build"

StructCall ==
  \E call \in StructCalls :
    /\ comp.kind = "Struct"
    /\ Len(calls) <= MaxCalls
    /\ Called(RustStruct_call(comp, call), call)

MethodCall ==
  \E call \in MethodCalls :
    /\ comp.kind = "Method"
    /\ Len(calls) <= MaxCalls
    /\ Called(RustMethod_call(comp, call), call)

ModuleCall ==
  \E call \in ModuleCalls :
    /\ comp.kind = "Module"
    /\ Len(calls) <= MaxCalls
    /\ Called(RustModule_call(comp, call), call)

ImplCall ==
  \E call \in ImplCalls :
    /\ comp.kind = "Implementation"
    /\ Len(calls) <= MaxCalls
    /\ Called(RustImplementation_call(comp, call), call)

NextConfig ==
  \/ StructCall
  \/ MethodCall
  \/ ModuleCall
  \/ ImplCall

SpecConfig == InitConfig /\ [][NextConfig]_vars

(* The argument of the last call of the given kind, or the default.        *)
RECURSIVE LastArg(_, _, _)
LastArg(cs, op, default) ==
  IF Len(cs) = 0 THEN default
  ELSE IF cs[Len(cs)].op = op THEN cs[Len(cs)].arg
  ELSE LastArg(SubSeq(cs, 1, Len(cs) - 1), op, default)

(* The arguments of the calls of the given kind, in call order.            *)
Args(cs, op) == [i \in 1..Len(CallsOf(cs, op)) |-> CallsOf(cs, op)[i].arg]

(* The list given by the last set_components call, if any, followed by the *)
(* components pushed after it.                                             *)
RECURSIVE ComponentsSetThenPushed(_)
ComponentsSetThenPushed(cs) ==
  IF Len(cs) = 0 THEN <<>>
  ELSE LET last == cs[Len(cs)]
           front == SubSeq(cs, 1, Len(cs) - 1)
       IN IF last.op = "set_components" THEN last.arg
          ELSE IF last.op = "push_component"
          THEN Append(ComponentsSetThenPushed(front), last.arg)
          ELSE ComponentsSetThenPushed(front)

Recorded == Len(calls) >= 1 /\ calls[1].op = "new"

StructAsCalled ==
  /\ comp.name = calls[1].arg
  /\ comp.visibility = LastArg(calls, "set_visibility", "Private")
  /\ comp.extra = LastArg(calls, "set_extra", <<>>)
  /\ comp.cfg = LastArg(calls, "set_cfg", <<>>)
  /\ comp.fields = Args(calls, "push_field")
  /\ comp.templates = Args(calls, "push_template")
  /\ comp.lifetimes = Args(calls, "push_lifetime")

MethodAsCalled ==
  /\ comp.name = calls[1].arg
  /\ comp.fn_type = LastArg(calls, "set_fn_type", <<>>)
  /\ comp.visibility = LastArg(calls, "set_visibility", "Private")
  /\ comp.return_type = LastArg(calls, "set_return_type", <<>>)
  /\ comp.body = LastArg(calls, "set_body", <<>>)
  /\ comp.arguments = Args(calls, "push_argument")
  /\ comp.templates = Args(calls, "push_template")
  /\ comp.lifetimes = Args(calls, "push_lifetime")

ModuleScalarsAndImportsAsCalled ==
  /\ comp.name = calls[1].arg
  /\ comp.cfg_options = LastArg(calls, "set_cfg", <<>>)
  /\ comp.visibility = LastArg(calls, "set_visibility", "Private")
  /\ comp.imports = Args(calls, "push_import")

(* C15 as stated: after any sequence of configuration calls every scalar   *)
(* attribute is the argument of the last call that set it, or its default, *)
(* and every collection is the pushed items in call order; hence a call    *)
(* changes no attribute but its own.                                       *)
LastWriteWinsPushedOnly ==
  Recorded =>
    /\ comp.kind = "Struct" => StructAsCalled
    /\ comp.kind = "Method" => MethodAsCalled
    /\ comp.kind = "Module" =>
         /\ ModuleScalarsAndImportsAsCalled
         /\ comp.components = Args(calls, "push_component")

(* C15: the same, except that a module's components are the list given by  *)
(* the last set_components / with_components call, if there was one,       *)
(* followed by the components pushed after it.                             *)
LastWriteWins ==
  Recorded =>
    /\ comp.kind = "Struct" => StructAsCalled
    /\ comp.kind = "Method" => MethodAsCalled
    /\ comp.kind = "Module" =>
         /\ ModuleScalarsAndImportsAsCalled
         /\ comp.components = ComponentsSetThenPushed(calls)

(* A module after push_component, set_components with one component, and   *)
(* push_component again: it holds the set one and the one pushed last.     *)
LastWriteWinsWitness ==
  /\ Recorded
  /\ comp.kind = "Module"
  /\ Len(calls) = 4
  /\ calls[2].op = "push_component"
  /\ calls[3].op = "set_components" /\ Len(calls[3].arg) = 1
  /\ calls[4].op = "push_component"
  /\ Len(comp.components) = 2

(* The arguments of the calls whose kind is one of ops, in call order.     *)
RECURSIVE ArgsIn(_, _)
ArgsIn(cs, ops) ==
  IF Len(cs) = 0 THEN <<>>
  ELSE (IF cs[1].op \in ops THEN <<cs[1].arg>> ELSE <<>>) \o ArgsIn(Tail(cs), ops)

CombinedOnly ==
  \A i \in 2..Len(calls) : calls[i].op \in {"push_template", "push_lifetime"}

(* C21: on an impl block push_template / with_template appends to the      *)
(* impl-side and to the target-side template list, and push_lifetime to    *)
(* the two lifetime lists, so after combined calls only the two sides are  *)
(* equal; the push_impl_ calls change the impl side only and the           *)
(* push_target_ calls the target side only.                                *)
ImplSides ==
  (Recorded /\ comp.kind = "Implementation") =>
    /\ comp.impl_templates = ArgsIn(calls, {"push_template", "push_impl_template"})
    /\ comp.target_templates = ArgsIn(calls, {"push_template", "push_target_template"})
    /\ comp.impl_lifetimes = ArgsIn(calls, {"push_lifetime", "push_impl_lifetime"})
    /\ comp.target_lifetimes = ArgsIn(calls, {"push_lifetime", "push_target_lifetime"})
    /\ CombinedOnly =>
         /\ comp.impl_templates = comp.target_templates
         /\ comp.impl_lifetimes = comp.target_lifetimes

(* push_impl_template, then push_template, then push_target_template.      *)
ImplSidesWitness ==
  /\ Recorded
  /\ comp.kind = "Implementation"
  /\ Len(calls) = 4
  /\ calls[2].op = "push_impl_template"
  /\ calls[3].op = "push_template"
  /\ calls[4].op = "push_target_template"
  /\ Len(comp.impl_templates) = 2
  /\ Len(comp.target_templates) = 2
  /\ comp.impl_templates # comp.target_templates

----------------------------------------------------------------------------
(* The rendering of a tree of modules followed call by call.  A frame of   *)
(* stack is one to_rust_string call in progress: the construct it renders, *)
(* its indent level, the index of the next owned child to render and the   *)
(* texts the children rendered so far returned.                            *)

(* The children whose to_rust_string the rendering of c calls.             *)
OwnedChildren(c) == IF c.kind = "Module" THEN c.components ELSE <<>>

(* contents.join("") once the children have returned their texts.          *)
RustModule_contents(m, indent_level, texts) ==
  LET imports == ModuleImports(m.imports, indent_string(indent_level + 1))
  IN (IF Len(m.cfg_options) # 0 THEN m.cfg_options \o <<NL>> ELSE <<>>)
     \o ModuleDecl(m, indent_level)
     \o (IF Len(imports) # 0 THEN imports \o <<NL>> ELSE <<>>)
     \o Concat(texts)
     \o indent_string(indent_level) \o CloseBrace \o <<NL>>

(* The text kept with the iterator of the caller left where it was, so     *)
(* that the same child is rendered again.                                  *)
FrameAfterReturn_Again(f, text) == [f EXCEPT !.texts = Append(@, text)]

(* The caller's frame once a child has returned text: the text is kept     *)
(* and the iterator moves to the next child.                               *)
FrameAfterReturn(f, text) == [f EXCEPT !.next = @ + 1, !.texts = Append(@, text)]

DeepModuleChild == RustModule_push_component(RustModule_new(<<"n">>), ModuleChild)

WalkChildren == ModuleChildren \cup {DeepModuleChild}

InitWalk ==
  /\ comp \in {RustModule_set_components(RustModule_new(n), cs) :
                 n \in Names, cs \in SeqsUpTo(WalkChildren, MaxComponents)}
  /\ out = <<>>
  /\ lvl = 0
  /\ phase = "build"
  /\ calls = <<>>
  /\ stack = <<>>

(* comp.to_rust_string(n) is called.                                       *)
WalkStart ==
  /\ phase = "build"
  /\ \E n \in Levels :
       /\ stack' = <<[node |-> comp, level |-> n, next |-> 1, texts |-> <<>>]>>
       /\ lvl' = n
  /\ phase' = "walking"
  /\ UNCHANGED <<comp, out, calls>>

(* The innermost call reaches its next child and calls its to_rust_string  *)
(* with indent_level + 1.                                                  *)
WalkCall ==
  /\ phase = "walking"
  /\ LET f == stack[Len(stack)]
     IN /\ f.next <= Len(OwnedChildren(f.node))
        /\ stack' = Append(stack, [node |-> OwnedChildren(f.node)[f.next],
                                   level |-> f.level + 1, next |-> 1, texts |-> <<>>])
  /\ UNCHANGED <<comp, out, lvl, phase, calls>>

(* The innermost call has no child left and returns its text, to its       *)
(* caller or, for the outermost call, as the result.                       *)
WalkReturn ==
  /\ phase = "walking"
  /\ LET f == stack[Len(stack)]
         text == IF f.node.kind = "Module"
                 THEN RustModule_contents(f.node, f.level, f.texts)
                 ELSE RustComponent_to_rust_string(f.node, f.level)
     IN /\ f.next > Len(OwnedChildren(f.node))
        /\ IF Len(stack) = 1
           THEN /\ out' = text
                /\ phase' = "rendered"
                /\ stack' = <<>>
           ELSE /\ stack' = SubSeq(stack, 1, Len(stack) - 2)
                             \o <<FrameAfterReturn(stack[Len(stack) - 1], text)>>
                /\ UNCHANGED <<out, phase>>
  /\ UNCHANGED <<comp, lvl, calls>>

NextWalk == WalkStart \/ WalkCall \/ WalkReturn

SpecWalk == InitWalk /\ [][NextWalk]_vars

(* A call, once made, runs on until it returns: nothing else runs in       *)
(* between and it waits for nothing.                                       *)
SpecWalkFair == SpecWalk /\ WF_vars(WalkCall \/ WalkReturn)

(* Every call in progress renders the child its caller has reached, one    *)
(* level deeper than its caller, and has rendered its own children before  *)
(* the one it has reached once each, in order.                             *)
WalkInOrder ==
  /\ phase = "walking" <=> stack # <<>>
  /\ \A k \in 1..Len(stack) :
       LET f == stack[k]
           children == OwnedChildren(f.node)
       IN /\ f.level = lvl + k - 1
          /\ f.node = IF k = 1 THEN comp
                      ELSE OwnedChildren(stack[k - 1].node)[stack[k - 1].next]
          /\ f.next \in 1..(Len(children) + 1)
          /\ Len(f.texts) = f.next - 1
          /\ \A i \in 1..Len(f.texts) :
               f.texts[i] = RustComponent_to_rust_string(children[i], f.level + 1)
  /\ phase = "rendered" => out = RustComponent_to_rust_string(comp, lvl)

(* C24: rendering a finite tree terminates: every to_rust_string call in   *)
(* progress returns; each call renders every owned child exactly once, in  *)
(* order, one level deeper, and the text returned at the end is the text   *)
(* of the tree.                                                            *)
RenderingTerminates ==
  /\ []WalkInOrder
  /\ (phase = "walking") ~> (phase = "rendered")

(* A module holding a module that holds a module that holds a struct,      *)
(* rendered to the end from level 1.                                       *)
RenderingTerminatesWitness ==
  /\ phase = "rendered"
  /\ stack = <<>>
  /\ lvl = 1
  /\ comp.components = <<DeepModuleChild, TextChild>>
  /\ out = RustComponent_to_rust_string(comp, 1)

====
